---- MODULE Spec2Model ----
(***************************************************************************)
(* A model of the Circular Enterprise APIs C++ client: the CepAccount      *)
(* object (src/src/cep_account.cpp), the CCertificate object               *)
(* (src/src/ccertificate.cpp), the helpers of src/src/utils.cpp with a     *)
(* caller of the two string conversions, and the gateway and discovery     *)
(* services as nondeterministic repliers.                                  *)
(*                                                                         *)
(* Representation.                                                         *)
(*  - A std::string that is hashed, hex-encoded or sent as a JSON field    *)
(*    (addresses, chain ids, keys, payloads, ids, timestamps) is a         *)
(*    sequence of byte codes 0..255; Bytes(<<"0","x","A">>) writes one     *)
(*    down character by character.                                         *)
(*  - A std::string that is only stored, tested for emptiness,             *)
(*    concatenated or compared for equality (error messages, URLs,         *)
(*    network names, JSON text values) is a sequence of tokens, each token *)
(*    a TLA+ string standing for its characters; the empty sequence is the *)
(*    empty string and + is \o.                                            *)
(*  - std::optional<T> is a sequence of length 0 (nullopt) or 1.           *)
(*  - A call whose behaviour the language leaves undefined yields any of   *)
(*    its possible results: the action that makes the call chooses one.    *)
(*  - Every asynchronous operation (a std::async task) is split where the  *)
(*    task blocks on an HTTP exchange: *_begin runs the code up to the     *)
(*    request, *_end runs the code that handles the reply, and task_get is *)
(*    the caller's future.get().                                           *)
(***************************************************************************)
EXTENDS Integers, Sequences, FiniteSets, TLC

(***************************************************************************)
(* Characters and byte strings                                             *)
(***************************************************************************)

\* The printable ASCII characters, code 32 first (code 96 by its name).
Printable ==
   <<
      " ", "!", "\"", "#", "$", "%", "&", "'", "(", ")", "*", "+", ",", "-", ".", "/",
      "0", "1", "2", "3", "4", "5", "6", "7", "8", "9", ":", ";", "<", "=", ">", "?",
      "@", "A", "B", "C", "D", "E", "F", "G", "H", "I", "J", "K", "L", "M", "N", "O",
      "P", "Q", "R", "S", "T", "U", "V", "W", "X", "Y", "Z", "[", "\\", "]", "^", "_",
      "grave", "a", "b", "c", "d", "e", "f", "g", "h", "i", "j", "k", "l", "m", "n", "o",
      "p", "q", "r", "s", "t", "u", "v", "w", "x", "y", "z", "{", "|", "}", "~"
   >>

OrdTable ==
    [c \in {Printable[i] : i \in 1..Len(Printable)} |->
        31 + (CHOOSE i \in 1..Len(Printable) : Printable[i] = c)]

Ord(c) == OrdTable[c]

Bytes(cs) == [i \in 1..Len(cs) |-> Ord(cs[i])]

RECURSIVE Concat(_)
Concat(ss) == IF ss = <<>> THEN <<>> ELSE Head(ss) \o Concat(Tail(ss))

IsDigit(b) == b \in 48..57
IsUpper(b) == b \in 65..90
\* std::isxdigit in the "C" locale
isxdigit(b) == b \in (48..57) \cup (65..70) \cup (97..102)
\* std::tolower in the "C" locale
tolower(b) == IF IsUpper(b) THEN b + 32 ELSE b

\* the value of one hexadecimal digit character
HexVal(b) == IF b \in 48..57 THEN b - 48
             ELSE IF b \in 65..70 THEN b - 55
             ELSE b - 87

UpperHexDigit(n) == IF n < 10 THEN 48 + n ELSE 55 + n
LowerHexDigit(n) == IF n < 10 THEN 48 + n ELSE 87 + n

\* std::isspace in the "C" locale
isspace(b) == b \in {32, 9, 10, 11, 12, 13}

\* std::stoi(byte_string, nullptr, 16) of a two-character string <<a, b>>, cast
\* to uint8_t: strtol skips leading white space, takes an optional sign and the
\* longest run of hexadecimal digits, and fails (std::invalid_argument) when
\* there is no digit.
stoi16(a, b) ==
    IF isxdigit(a)
    THEN [ok |-> TRUE, byte |-> IF isxdigit(b) THEN 16 * HexVal(a) + HexVal(b)
                                ELSE HexVal(a)]
    ELSE IF isspace(a) /\ isxdigit(b)
    THEN [ok |-> TRUE, byte |-> HexVal(b)]
    ELSE IF a = 43 /\ isxdigit(b)
    THEN [ok |-> TRUE, byte |-> HexVal(b)]
    ELSE IF a = 45 /\ isxdigit(b)
    THEN [ok |-> TRUE, byte |-> (256 - HexVal(b)) % 256]
    ELSE [ok |-> FALSE, byte |-> 0]

\* std::to_string of a non-negative integer
RECURSIVE DecimalDigits(_)
DecimalDigits(n) == IF n < 10 THEN <<48 + n>>
                    ELSE DecimalDigits(n \div 10) \o <<48 + (n % 10)>>

\* std::to_string(std::int64_t)
to_string(n) == IF n < 0 THEN <<45>> \o DecimalDigits(0 - n) ELSE DecimalDigits(n)

(***************************************************************************)
(* src/src/utils.cpp                                                       *)
(***************************************************************************)

\* pad_number: "0" + to_string(num) for 0 <= num < 10, to_string(num) otherwise
pad_number(num) == IF num >= 0 /\ num < 10 THEN <<48>> \o to_string(num)
                   ELSE to_string(num)

\* std::put_time(&tm, "%Y:%m:%d-%H:%M:%S") of a broken-down UTC time
\* tm = [year, mon (1..12), mday, hour, min, sec]; %Y of a four-digit year
get_formatted_timestamp(tm) ==
    to_string(tm.year) \o <<58>> \o pad_number(tm.mon) \o <<58>> \o pad_number(tm.mday)
       \o <<45>> \o pad_number(tm.hour) \o <<58>> \o pad_number(tm.min)
       \o <<58>> \o pad_number(tm.sec)

\* s.length() >= 2 && (s.substr(0, 2) == "0x" || s.substr(0, 2) == "0X")
Has0xPrefix(s) == Len(s) >= 2 /\ s[1] = 48 /\ s[2] \in {120, 88}

Strip0x(s) == IF Has0xPrefix(s) THEN SubSeq(s, 3, Len(s)) ELSE s

hex_fix(hex_str) ==
    IF hex_str = <<>> THEN <<>>
    ELSE LET s1 == Strip0x(hex_str)
             s2 == [i \in 1..Len(s1) |-> tolower(s1[i])]
         IN  IF Len(s2) % 2 # 0 THEN <<48>> \o s2 ELSE s2

\* A variant of str_to_hex without std::uppercase.
str_to_hex_lowercase(s) ==
    [i \in 1..(2 * Len(s)) |->
        IF i % 2 = 1 THEN LowerHexDigit(s[(i + 1) \div 2] \div 16)
        ELSE LowerHexDigit(s[i \div 2] % 16)]

\* str_to_hex: two uppercase hexadecimal digits per byte (the loop variable is
\* an unsigned char, so a byte of 0x80 and above is written as 80..FF)
str_to_hex(s) ==
    [i \in 1..(2 * Len(s)) |->
        IF i % 2 = 1 THEN UpperHexDigit(s[(i + 1) \div 2] \div 16)
        ELSE UpperHexDigit(s[i \div 2] % 16)]

\* std::isxdigit(c) of a plain char c, as hex_to_str calls it: a byte of 0x80
\* and above is a negative char, which is neither EOF nor the value of an
\* unsigned char, so the call has undefined behaviour and its result is
\* whatever the build yields, `undefined`.
isxdigit_char(c, undefined) == IF c >= 128 THEN undefined ELSE isxdigit(c)

\* what hex_to_str makes of the validated string s: an exception of std::stoi
\* or the bytes of the pairs, in order
decode_pairs(s) ==
    LET n == Len(s) \div 2
        conv(i) == stoi16(s[2 * i - 1], s[2 * i])
    IN  IF \E i \in 1..n : ~conv(i).ok
        THEN [threw |-> TRUE, str |-> <<>>]
        ELSE [threw |-> FALSE, str |-> [i \in 1..n |-> conv(i).byte]]

\* A variant of hex_to_str without the std::isxdigit loop.
hex_to_str_unvalidated(hex_str, undefined) ==
    IF hex_str = <<>> THEN [threw |-> FALSE, str |-> <<>>]
    ELSE LET s == Strip0x(hex_str)
         IN  IF Len(s) % 2 # 0 THEN [threw |-> FALSE, str |-> <<>>]
             ELSE decode_pairs(s)

\* hex_to_str: [threw |-> TRUE] when std::stoi throws, else the string returned
hex_to_str(hex_str, undefined) ==
    IF hex_str = <<>> THEN [threw |-> FALSE, str |-> <<>>]
    ELSE LET s == Strip0x(hex_str)
         IN  IF Len(s) % 2 # 0 THEN [threw |-> FALSE, str |-> <<>>]
             ELSE IF \E i \in 1..Len(s) : ~isxdigit_char(s[i], undefined)
             THEN [threw |-> FALSE, str |-> <<>>]
             ELSE decode_pairs(s)

(***************************************************************************)
(* The anonymous-namespace helpers of src/src/cep_account.cpp              *)
(***************************************************************************)

\* hex_to_bytes: [threw |-> TRUE] when std::stoi throws, else the bytes
hex_to_bytes(hex) ==
    LET clean_hex == hex_fix(hex)
        n == Len(clean_hex) \div 2
        conv(i) == stoi16(clean_hex[2 * i - 1], clean_hex[2 * i])
    IN  IF \E i \in 1..n : ~conv(i).ok
        THEN [threw |-> TRUE, bytes |-> <<>>]
        ELSE [threw |-> FALSE, bytes |-> [i \in 1..n |-> conv(i).byte]]

\* Values above a byte are symbols for the results of the cryptographic
\* primitives, which are kept uninterpreted: a symbol is followed by the
\* bytes it was computed from, so that two results are equal exactly when
\* their inputs are.
SHA256_SYM == 256
ECDSA_DER_SYM == 257
HEX_SYM == 258

IsSymbolic(bytes) == bytes # <<>> /\ bytes[1] >= 256

\* sha256: the 32-byte digest of data
sha256(data) == <<SHA256_SYM>> \o data

\* bytes_to_hex: two lowercase hexadecimal digits per byte
bytes_to_hex(bytes) ==
    IF IsSymbolic(bytes) THEN <<HEX_SYM>> \o bytes
    ELSE [i \in 1..(2 * Len(bytes)) |->
             IF i % 2 = 1 THEN LowerHexDigit(bytes[(i + 1) \div 2] \div 16)
             ELSE LowerHexDigit(bytes[i \div 2] % 16)]

(***************************************************************************)
(* Result<T, E> (src/include/circular/utils.hpp) and nlohmann::json values *)
(***************************************************************************)

Ok(v) == [is_ok |-> TRUE, value |-> v, error |-> <<>>]
Err(e) == [is_ok |-> FALSE, value |-> <<>>, error |-> e]
has_value(r) == r.is_ok

nullopt == <<>>
Some(v) == <<v>>

\* A JSON value: its kind and, by kind, its integer, its text or its members.
JNull == [k |-> "null", n |-> 0, s |-> <<>>, o |-> <<>>]
JInt(i) == [k |-> "int", n |-> i, s |-> <<>>, o |-> <<>>]
JFloat == [k |-> "float", n |-> 0, s |-> <<>>, o |-> <<>>]
JStr(t) == [k |-> "string", n |-> 0, s |-> t, o |-> <<>>]
JObj(f) == [k |-> "object", n |-> 0, s |-> <<>>, o |-> f]

\* json::contains(key): false on a value that is not an object
contains(j, key) == j.k = "object" /\ key \in DOMAIN j.o
at(j, key) == j.o[key]
is_number_integer(j) == j.k = "int"
is_string(j) == j.k = "string"

\* the conversions of a json value that throw json::type_error (302): to an
\* integer (int x = j, j.get<std::int64_t>()) of a value that is no number, to
\* std::string of a value that is no string
get_integer_throws(j) == j.k \notin {"int", "float"}
get_string_throws(j) == j.k # "string"

(***************************************************************************)
(* src/include/circular/circular_enterprise_apis.hpp                       *)
(***************************************************************************)

LIB_VERSION == Bytes(<<"1", ".", "0", ".", "1", "3">>)

DEFAULT_CHAIN ==
    Bytes(<<
        "0", "x", "8", "a", "2", "0", "b", "a", "a", "4", "0", "c", "4", "5", "d", "c",
        "5", "0", "5", "5", "a", "e", "b", "2", "6", "1", "9", "7", "c", "2", "0", "3",
        "e", "5", "7", "6", "e", "f", "3", "8", "9", "d", "9", "a", "c", "b", "1", "7",
        "1", "b", "d", "6", "2", "d", "a", "1", "1", "d", "c", "5", "a", "d", "7", "2",
        "b", "2" >>)

DEFAULT_NAG == <<"https://", "nag.circularlabs.io", "/NAG.php?cep=">>

DEFAULT_NETWORK_URL == <<"https://", "circularlabs.io", "/network/getNAG?network=">>

(***************************************************************************)
(* URLs and the HTTP exchange                                              *)
(***************************************************************************)

\* The tokens of a URL that begin with '/'; no other token holds a '/', and no
\* token other than "https://" begins with these eight characters.
SlashTokens == {"/NAG.php?cep=", "/network/getNAG?network=", "/", "/gw/"}

\* A variant of parse_url that does not look for the "https://" prefix.
parse_url_any_scheme(url) == [ok |-> url # <<>>, host |-> url, path |-> <<"/">>]

\* NetworkClient::parse_url: the URL must begin with "https://"; the host is what
\* precedes the first '/' after it and must not be empty.
parse_url(url) ==
    IF url = <<>> \/ url[1] # "https://"
    THEN [ok |-> FALSE, host |-> <<>>, path |-> <<>>]
    ELSE LET url_without_protocol == Tail(url)
             slashes == {i \in 1..Len(url_without_protocol) :
                            url_without_protocol[i] \in SlashTokens}
         IN  IF slashes = {}
             THEN [ok |-> url_without_protocol # <<>>,
                   host |-> url_without_protocol, path |-> <<"/">>]
             ELSE LET slash_pos == CHOOSE i \in slashes : \A j \in slashes : i <= j
                      host == SubSeq(url_without_protocol, 1, slash_pos - 1)
                  IN  [ok |-> host # <<>>, host |-> host,
                       path |-> SubSeq(url_without_protocol, slash_pos,
                                       Len(url_without_protocol))]

\* What comes back from one HTTP exchange: no response at all (arrived = FALSE),
\* or a status and a body that parses as JSON or does not.
NoResponse == [arrived |-> FALSE, status |-> 0, parses |-> FALSE, json |-> JNull]
HttpStatus(code) == [arrived |-> TRUE, status |-> code, parses |-> FALSE, json |-> JNull]
HttpGarbage == [arrived |-> TRUE, status |-> 200, parses |-> FALSE, json |-> JNull]
HttpJson(j) == [arrived |-> TRUE, status |-> 200, parses |-> TRUE, json |-> j]

\* NetworkClient::post_json after client.Post returned `http`
post_json(http) ==
    IF ~http.arrived THEN Err(<<"network request failed">>)
    ELSE IF http.status # 200
    THEN Err(<<"network request failed with status: ", ToString(http.status)>>)
    ELSE IF ~http.parses
    THEN Err(<<"failed to decode response JSON: ", "parse error">>)
    ELSE Ok(http.json)

\* json::value(key, "") as get_nag uses it: the default when the key is absent;
\* a json::exception when the value is not an object or the member not a string
ValueThrows(j, key) == j.k # "object" \/ (key \in DOMAIN j.o /\ j.o[key].k # "string")
value_or_empty(j, key) == IF key \in DOMAIN j.o THEN j.o[key].s ELSE <<>>

\* A variant of get_nag that does not test whether the url is empty.
get_nag_any_url(http) ==
    IF ~http.arrived THEN Err(<<"failed to fetch NAG URL: network request failed">>)
    ELSE IF http.status # 200
    THEN Err(<<"network discovery failed with status: ", ToString(http.status)>>)
    ELSE IF ~http.parses
    THEN Err(<<"failed to unmarshal NAG response: ", "parse error">>)
    ELSE IF \E key \in {"status", "url", "message"} : ValueThrows(http.json, key)
    THEN Err(<<"failed to unmarshal NAG response: ", "type error">>)
    ELSE LET status == value_or_empty(http.json, "status")
             url == value_or_empty(http.json, "url")
             message == value_or_empty(http.json, "message")
         IN  IF status # <<"success">>
             THEN Err(<<"failed to get valid NAG URL from response: ">> \o message)
             ELSE Ok(url)

\* get_nag after client.Get returned `http`
get_nag(http) ==
    IF ~http.arrived THEN Err(<<"failed to fetch NAG URL: network request failed">>)
    ELSE IF http.status # 200
    THEN Err(<<"network discovery failed with status: ", ToString(http.status)>>)
    ELSE IF ~http.parses
    THEN Err(<<"failed to unmarshal NAG response: ", "parse error">>)
    ELSE IF \E key \in {"status", "url", "message"} : ValueThrows(http.json, key)
    THEN Err(<<"failed to unmarshal NAG response: ", "type error">>)
    ELSE LET status == value_or_empty(http.json, "status")
             url == value_or_empty(http.json, "url")
             message == value_or_empty(http.json, "message")
         IN  IF status = <<"error">>
             THEN Err(<<"failed to get valid NAG URL from response: ">> \o message)
             ELSE IF status # <<"success">> \/ url = <<>>
             THEN Err(<<"failed to get valid NAG URL from response: ">> \o message)
             ELSE Ok(url)

(***************************************************************************)
(* Signing (CepAccount::sign_data)                                         *)
(***************************************************************************)

\* the order of the secp256k1 group, big-endian
CurveOrder ==
    << 255, 255, 255, 255, 255, 255, 255, 255, 255, 255, 255, 255, 255, 255, 255, 254,
       186, 174, 220, 230, 175, 72, 160, 59, 191, 210, 94, 140, 208, 54, 65, 65 >>

\* big-endian a < b for byte strings of equal length
LexLess(a, b) ==
    \E i \in 1..Len(a) : a[i] < b[i] /\ \A j \in 1..(i - 1) : a[j] = b[j]

\* A variant of secp256k1_ec_seckey_verify that takes every key for a scalar.
secp256k1_ec_seckey_verify_any(key) == TRUE

\* secp256k1_ec_seckey_verify: 0 < key < group order
secp256k1_ec_seckey_verify(key) ==
    (\E i \in 1..Len(key) : key[i] # 0) /\ LexLess(key, CurveOrder)

\* the DER-serialized ECDSA signature of a digest under a key, uninterpreted
secp256k1_ecdsa_sign(hash, key) == <<ECDSA_DER_SYM>> \o key \o hash

\* sign_data(message, private_key_hex) on an account with address acct_address
sign_data(acct_address, message, private_key_hex) ==
    IF acct_address = <<>> THEN Err(<<"account is not open">>)
    ELSE LET private_key_bytes == hex_to_bytes(private_key_hex)
         IN  IF private_key_bytes.threw THEN Err(<<"signing error: ", "stoi">>)
             ELSE IF Len(private_key_bytes.bytes) # 32
             THEN Err(<<"private key must be 32 bytes long">>)
             ELSE IF ~secp256k1_ec_seckey_verify(private_key_bytes.bytes)
             THEN Err(<<"invalid private key">>)
             ELSE Ok(bytes_to_hex(
                        secp256k1_ecdsa_sign(sha256(message), private_key_bytes.bytes)))

(***************************************************************************)
(* Bounds of the model                                                     *)
(***************************************************************************)

\* submit_certificate is not started at nonce >= MaxNonce, and the gateway
\* reports wallet nonces below MaxNonce
MaxNonce == 2
\* the number of tasks that may be in flight together under SpecOverlap
MaxTasks == 2
\* the longest one poll (exchange and oversleep) takes beyond the interval, in seconds
MaxDelay == 1

TaskIds == 1..MaxTasks

(***************************************************************************)
(* State                                                                   *)
(***************************************************************************)

VARIABLES
    \* the fields of CepAccount (src/include/circular/cep_account.hpp)
    address, public_key, code_version, nag_url, network_node, blockchain,
    latest_tx_id, nonce, interval_sec, network_url, info_, last_error_,
    \* per task: where it is, the operation it runs, its locals, the request it
    \* has sent last, the HTTP reply it returned on, what it returned
    pc, op, loc, req, rsp, ret,
    \* the fields of a CCertificate (src/include/circular/ccertificate.hpp)
    data_, previous_tx_id_, previous_block_, version_,
    \* a caller of the string helpers (src/tests/unit/test_utils.cpp): the
    \* string it encodes, the hexadecimal string it decodes, what decoding gave
    original, hex_string, decoded

fields == <<address, public_key, code_version, nag_url, network_node, blockchain,
            latest_tx_id, nonce, interval_sec, network_url, info_, last_error_>>
taskvars == <<pc, op, loc, req, rsp, ret>>
certificate == <<data_, previous_tx_id_, previous_block_, version_>>
utility == <<original, hex_string, decoded>>
vars == <<fields, taskvars, certificate, utility>>

NoReq == [sent |-> FALSE, url |-> <<>>, body |-> <<>>]
Request(url, body) == [sent |-> TRUE, url |-> url, body |-> body]

\* the locals of a task that outlive one step
\* (debug_entry: the private key this call's sign_data appended to the file
\* "rust_sign_debug.log", empty if it appended nothing; requests: the HTTP
\* requests this call has issued)
NoLoc == [network |-> <<>>, id |-> <<>>, tx_id |-> <<>>, timeout_sec |-> 0,
          poll_interval_sec |-> 0, elapsed |-> 0, requests |-> 0, debug_entry |-> <<>>]

\* what a task returns: a bool, or an optional JSON value (ok = has_value)
RetBool(b) == [ok |-> b, json |-> JNull, threw |-> FALSE]
RetJson(j) == [ok |-> TRUE, json |-> j, threw |-> FALSE]
RetNullopt == [ok |-> FALSE, json |-> JNull, threw |-> FALSE]
\* an exception left the task's lambda: the future holds it and get() rethrows it
RetThrown == [ok |-> FALSE, json |-> JNull, threw |-> TRUE]

\* CCertificate::CCertificate
CCertificate_new ==
    /\ data_ = <<>>
    /\ previous_tx_id_ = <<>>
    /\ previous_block_ = <<>>
    /\ version_ = LIB_VERSION

\* what hex_to_str gave: nothing before the call, then an exception or a string
NotDecoded == [called |-> FALSE, threw |-> FALSE, str |-> <<>>]
Decoded(r) == [called |-> TRUE, threw |-> r.threw, str |-> r.str]

\* CepAccount::CepAccount, and no task started
CepAccount_new ==
    /\ address = <<>>
    /\ public_key = <<>>
    /\ code_version = LIB_VERSION
    /\ nag_url = DEFAULT_NAG
    /\ network_node = <<>>
    /\ blockchain = DEFAULT_CHAIN
    /\ latest_tx_id = <<>>
    /\ nonce = 0
    /\ interval_sec = 2
    /\ network_url = DEFAULT_NETWORK_URL
    /\ info_ = nullopt
    /\ last_error_ = nullopt
    /\ pc = [t \in TaskIds |-> "idle"]
    /\ op = [t \in TaskIds |-> "none"]
    /\ loc = [t \in TaskIds |-> NoLoc]
    /\ req = [t \in TaskIds |-> NoReq]
    /\ rsp = [t \in TaskIds |-> NoResponse]
    /\ ret = [t \in TaskIds |-> RetBool(FALSE)]

\* an account, a certificate and a caller's strings, all newly constructed
Init ==
    /\ CepAccount_new
    /\ CCertificate_new
    /\ original = <<>> /\ hex_string = <<>> /\ decoded = NotDecoded

(***************************************************************************)
(* The synchronous operations                                              *)
(***************************************************************************)

\* what open returns for account_address
open_result(account_address) == account_address # <<>>

\* Variants of open: one that stores the address it refuses; one that stores
\* the address in the normal form of hex_fix.
open_stores_refused(account_address) ==
    /\ address' = account_address
    /\ IF account_address = <<>>
       THEN last_error_' = Some(<<"invalid address format">>)
       ELSE UNCHANGED last_error_
    /\ UNCHANGED <<public_key, code_version, nag_url, network_node, blockchain,
                   latest_tx_id, nonce, interval_sec, network_url, info_>>
    /\ UNCHANGED taskvars
    /\ UNCHANGED <<certificate, utility>>

open_normalised(account_address) ==
    /\ IF account_address = <<>>
       THEN /\ last_error_' = Some(<<"invalid address format">>)
            /\ UNCHANGED address
       ELSE /\ address' = hex_fix(account_address)
            /\ UNCHANGED last_error_
    /\ UNCHANGED <<public_key, code_version, nag_url, network_node, blockchain,
                   latest_tx_id, nonce, interval_sec, network_url, info_>>
    /\ UNCHANGED taskvars
    /\ UNCHANGED <<certificate, utility>>

\* A variant of open that starts the account without a latest transaction.
open_forgets_latest_tx_id(account_address) ==
    /\ IF account_address = <<>>
       THEN /\ last_error_' = Some(<<"invalid address format">>)
            /\ UNCHANGED <<address, latest_tx_id>>
       ELSE /\ address' = account_address
            /\ latest_tx_id' = <<>>
            /\ UNCHANGED last_error_
    /\ UNCHANGED <<public_key, code_version, nag_url, network_node, blockchain,
                   nonce, interval_sec, network_url, info_>>
    /\ UNCHANGED taskvars
    /\ UNCHANGED <<certificate, utility>>

open(account_address) ==
    /\ IF account_address = <<>>
       THEN /\ last_error_' = Some(<<"invalid address format">>)
            /\ UNCHANGED address
       ELSE /\ address' = account_address
            /\ UNCHANGED last_error_
    /\ UNCHANGED <<public_key, code_version, nag_url, network_node, blockchain,
                   latest_tx_id, nonce, interval_sec, network_url, info_>>
    /\ UNCHANGED taskvars
    /\ UNCHANGED <<certificate, utility>>

\* A variant of close that puts nag_url and blockchain back to the values the
\* constructor gives them.
close_to_defaults ==
    /\ address' = <<>>
    /\ public_key' = <<>>
    /\ info_' = nullopt
    /\ nag_url' = DEFAULT_NAG
    /\ network_node' = <<>>
    /\ blockchain' = DEFAULT_CHAIN
    /\ latest_tx_id' = <<>>
    /\ nonce' = 0
    /\ interval_sec' = 0
    /\ UNCHANGED <<code_version, network_url, last_error_>>
    /\ UNCHANGED taskvars
    /\ UNCHANGED <<certificate, utility>>

\* A variant of close that also clears network_url.
close_clears_network_url ==
    /\ address' = <<>>
    /\ public_key' = <<>>
    /\ info_' = nullopt
    /\ nag_url' = <<>>
    /\ network_node' = <<>>
    /\ blockchain' = <<>>
    /\ latest_tx_id' = <<>>
    /\ nonce' = 0
    /\ interval_sec' = 0
    /\ network_url' = <<>>
    /\ UNCHANGED <<code_version, last_error_>>
    /\ UNCHANGED taskvars
    /\ UNCHANGED <<certificate, utility>>

\* A variant of close that also forgets the recorded error.
close_forgets_error ==
    /\ address' = <<>>
    /\ public_key' = <<>>
    /\ info_' = nullopt
    /\ nag_url' = <<>>
    /\ network_node' = <<>>
    /\ blockchain' = <<>>
    /\ latest_tx_id' = <<>>
    /\ nonce' = 0
    /\ interval_sec' = 0
    /\ last_error_' = nullopt
    /\ UNCHANGED <<code_version, network_url>>
    /\ UNCHANGED taskvars
    /\ UNCHANGED <<certificate, utility>>

close ==
    /\ address' = <<>>
    /\ public_key' = <<>>
    /\ info_' = nullopt
    /\ nag_url' = <<>>
    /\ network_node' = <<>>
    /\ blockchain' = <<>>
    /\ latest_tx_id' = <<>>
    /\ nonce' = 0
    /\ interval_sec' = 0
    /\ UNCHANGED <<code_version, network_url, last_error_>>
    /\ UNCHANGED taskvars
    /\ UNCHANGED <<certificate, utility>>

set_blockchain(blockchain_address) ==
    /\ blockchain' = blockchain_address
    /\ UNCHANGED <<address, public_key, code_version, nag_url, network_node,
                   latest_tx_id, nonce, interval_sec, network_url, info_, last_error_>>
    /\ UNCHANGED taskvars
    /\ UNCHANGED <<certificate, utility>>

set_network_node(node) ==
    /\ network_node' = node
    /\ UNCHANGED <<address, public_key, code_version, nag_url, blockchain,
                   latest_tx_id, nonce, interval_sec, network_url, info_, last_error_>>
    /\ UNCHANGED taskvars
    /\ UNCHANGED <<certificate, utility>>

set_interval(seconds) ==
    /\ interval_sec' = seconds
    /\ UNCHANGED <<address, public_key, code_version, nag_url, network_node, blockchain,
                   latest_tx_id, nonce, network_url, info_, last_error_>>
    /\ UNCHANGED taskvars
    /\ UNCHANGED <<certificate, utility>>

(***************************************************************************)
(* Tasks                                                                   *)
(***************************************************************************)

\* the task's lambda returns r: the future becomes ready
Return(t, r) ==
    /\ pc' = [pc EXCEPT ![t] = "ret"]
    /\ ret' = [ret EXCEPT ![t] = r]

\* the task blocks on the HTTP exchange of request q
Await(t, where, q) ==
    /\ pc' = [pc EXCEPT ![t] = where]
    /\ req' = [req EXCEPT ![t] = q]
    /\ UNCHANGED ret

\* the caller's future.get(): the task is over
task_get(t) ==
    /\ pc[t] = "ret"
    /\ pc' = [pc EXCEPT ![t] = "idle"]
    /\ op' = [op EXCEPT ![t] = "none"]
    /\ loc' = [loc EXCEPT ![t] = NoLoc]
    /\ req' = [req EXCEPT ![t] = NoReq]
    /\ rsp' = [rsp EXCEPT ![t] = NoResponse]
    /\ ret' = [ret EXCEPT ![t] = RetBool(FALSE)]
    /\ UNCHANGED fields
    /\ UNCHANGED <<certificate, utility>>

(***************************************************************************)
(* CepAccount::set_network                                                 *)
(***************************************************************************)

\* the request get_nag issues: GET https://circularlabs.io/network/getNAG?network=<network>
DiscoveryRequest(network) ==
    Request(<<"https://", "circularlabs.io", "/network/getNAG?network=">> \o network, <<>>)

\* A variant of empty_network_name: the test left out.
empty_network_name_unchecked(network) == FALSE

\* network.empty(), the test get_nag opens with
empty_network_name(network) == network = <<>>

set_network_begin(t, network) ==
    /\ pc[t] = "idle"
    /\ op' = [op EXCEPT ![t] = "set_network"]
    /\ rsp' = rsp
    /\ IF empty_network_name(network)
       THEN /\ last_error_' = Some(<<"network identifier cannot be empty">>)
            /\ loc' = [loc EXCEPT ![t].network = network]
            /\ Return(t, RetBool(FALSE))
            /\ UNCHANGED req
       ELSE /\ loc' = [loc EXCEPT ![t].network = network, ![t].requests = 1]
            /\ Await(t, "wait", DiscoveryRequest(network))
            /\ UNCHANGED last_error_
    /\ UNCHANGED <<address, public_key, code_version, nag_url, network_node, blockchain,
                   latest_tx_id, nonce, interval_sec, network_url, info_>>
    /\ UNCHANGED <<certificate, utility>>

\* A variant of set_network_binding that unbinds the account when discovery
\* fails.
set_network_binding_unbinds(result, network) ==
    IF has_value(result) THEN [nag_url |-> result.value, network_node |-> network]
    ELSE [nag_url |-> <<>>, network_node |-> <<>>]

\* lines 173-176 when get_nag succeeded, nothing otherwise: the nag_url and
\* network_node set_network leaves
set_network_binding(result, network) ==
    IF has_value(result) THEN [nag_url |-> result.value, network_node |-> network]
    ELSE [nag_url |-> nag_url, network_node |-> network_node]

set_network_end(t, http) ==
    /\ pc[t] = "wait" /\ op[t] = "set_network"
    /\ rsp' = [rsp EXCEPT ![t] = http]
    /\ LET result == get_nag(http)
           bound == set_network_binding(result, loc[t].network)
       IN  /\ nag_url' = bound.nag_url
           /\ network_node' = bound.network_node
           /\ last_error_' = IF has_value(result) THEN last_error_ ELSE Some(result.error)
           /\ Return(t, RetBool(has_value(result)))
    /\ UNCHANGED <<address, public_key, code_version, blockchain, latest_tx_id, nonce,
                   interval_sec, network_url, info_>>
    /\ UNCHANGED <<op, loc, req>>
    /\ UNCHANGED <<certificate, utility>>

(***************************************************************************)
(* CepAccount::update_account                                              *)
(***************************************************************************)

\* A variant of account_not_open: the test left out.
account_not_open_unchecked == FALSE

\* address.empty(), the test update_account and submit_certificate open with
account_not_open == address = <<>>

update_account_begin(t) ==
    /\ pc[t] = "idle"
    /\ op' = [op EXCEPT ![t] = "update_account"]
    /\ rsp' = rsp
    /\ IF account_not_open
       THEN /\ last_error_' = Some(<<"Account not open">>)
            /\ Return(t, RetBool(FALSE))
            /\ UNCHANGED <<req, loc>>
       ELSE LET request_data == [Address |-> hex_fix(address),
                                 Version |-> code_version,
                                 Blockchain |-> hex_fix(blockchain)]
                url == nag_url \o <<"Circular_GetWalletNonce_">> \o network_node
            IN  IF ~parse_url(url).ok
                THEN /\ last_error_' = Some(<<"invalid URL format">>)
                     /\ Return(t, RetBool(FALSE))
                     /\ UNCHANGED <<req, loc>>
                ELSE /\ Await(t, "wait", Request(url, request_data))
                     /\ loc' = [loc EXCEPT ![t].requests = 1]
                     /\ UNCHANGED last_error_
    /\ UNCHANGED <<address, public_key, code_version, nag_url, network_node, blockchain,
                   latest_tx_id, nonce, interval_sec, network_url, info_>>
    /\ UNCHANGED <<certificate, utility>>

\* A variant of nonce_from_reply that stores the reported Nonce as it is.
nonce_from_reply_as_reported(data) == at(at(data, "Response"), "Nonce").n

\* line 223: data["Response"]["Nonce"].get<std::int64_t>() + 1
nonce_from_reply(data) == at(at(data, "Response"), "Nonce").n + 1

\* lines 212-246: what update_account makes of the result of post_json: whether it
\* returns true, the nonce it then stores, the message it otherwise records
update_account_reply(result) ==
    IF ~has_value(result) THEN [ok |-> FALSE, nonce |-> 0, error |-> result.error]
    ELSE LET data == result.value
         IN  IF contains(data, "Result") /\ is_number_integer(at(data, "Result"))
             THEN LET result_code == at(data, "Result").n
                  IN  IF result_code = 200
                      THEN IF /\ contains(data, "Response")
                              /\ contains(at(data, "Response"), "Nonce")
                              /\ is_number_integer(at(at(data, "Response"), "Nonce"))
                           THEN [ok |-> TRUE, nonce |-> nonce_from_reply(data),
                                 error |-> <<>>]
                           ELSE [ok |-> FALSE, nonce |-> 0,
                                 error |-> <<"failed to decode nonce response">>]
                      ELSE IF result_code = 114
                      THEN [ok |-> FALSE, nonce |-> 0,
                            error |-> <<"Rejected: Invalid Blockchain">>]
                      ELSE IF result_code = 115
                      THEN [ok |-> FALSE, nonce |-> 0,
                            error |-> <<"Rejected: Insufficient balance">>]
                      ELSE IF contains(data, "Response") /\ is_string(at(data, "Response"))
                      THEN [ok |-> FALSE, nonce |-> 0,
                            error |-> <<"failed to update account: ">>
                                         \o at(data, "Response").s]
                      ELSE [ok |-> FALSE, nonce |-> 0,
                            error |-> <<"failed to update account: unknown error response">>]
             ELSE [ok |-> FALSE, nonce |-> 0,
                   error |-> <<"failed to get result from response">>]

\* A variant of update_account_nonce: a failed update_account starts over at 0.
update_account_nonce_reset(r) == IF r.ok THEN r.nonce ELSE 0

\* the nonce update_account leaves: assigned on the path that returns true only
update_account_nonce(r) == IF r.ok THEN r.nonce ELSE nonce

\* lines 217-246: whether a conversion of the reply throws on the path
\* update_account takes through it; no try block encloses these lines
update_account_throws(result) ==
    /\ has_value(result)
    /\ LET data == result.value
       IN  /\ contains(data, "Result") /\ is_number_integer(at(data, "Result"))
           /\ \/ get_integer_throws(at(data, "Result"))
              \/ /\ at(data, "Result").n = 200
                 /\ contains(data, "Response")
                 /\ contains(at(data, "Response"), "Nonce")
                 /\ is_number_integer(at(at(data, "Response"), "Nonce"))
                 /\ get_integer_throws(at(at(data, "Response"), "Nonce"))
              \/ /\ at(data, "Result").n \notin {200, 114, 115}
                 /\ contains(data, "Response") /\ is_string(at(data, "Response"))
                 /\ get_string_throws(at(data, "Response"))

\* A variant of update_account_end that sends its request once more when the
\* first exchange fails.
update_account_end_retries(t, http) ==
    /\ pc[t] = "wait" /\ op[t] = "update_account"
    /\ rsp' = [rsp EXCEPT ![t] = http]
    /\ IF ~has_value(post_json(http)) /\ loc[t].requests < 2
       THEN /\ loc' = [loc EXCEPT ![t].requests = @ + 1]
            /\ UNCHANGED <<pc, ret, nonce, last_error_>>
       ELSE /\ IF update_account_throws(post_json(http))
               THEN Return(t, RetThrown) /\ UNCHANGED <<nonce, last_error_>>
               ELSE LET r == update_account_reply(post_json(http))
                    IN  /\ nonce' = update_account_nonce(r)
                        /\ last_error_' = IF r.ok THEN last_error_ ELSE Some(r.error)
                        /\ Return(t, RetBool(r.ok))
            /\ UNCHANGED loc
    /\ UNCHANGED <<address, public_key, code_version, nag_url, network_node, blockchain,
                   latest_tx_id, interval_sec, network_url, info_>>
    /\ UNCHANGED <<op, req>>
    /\ UNCHANGED <<certificate, utility>>

update_account_end(t, http) ==
    /\ pc[t] = "wait" /\ op[t] = "update_account"
    /\ rsp' = [rsp EXCEPT ![t] = http]
    /\ IF update_account_throws(post_json(http))
       THEN Return(t, RetThrown) /\ UNCHANGED <<nonce, last_error_>>
       ELSE LET r == update_account_reply(post_json(http))
            IN  /\ nonce' = update_account_nonce(r)
                /\ last_error_' = IF r.ok THEN last_error_ ELSE Some(r.error)
                /\ Return(t, RetBool(r.ok))
    /\ UNCHANGED <<address, public_key, code_version, nag_url, network_node, blockchain,
                   latest_tx_id, interval_sec, network_url, info_>>
    /\ UNCHANGED <<op, loc, req>>
    /\ UNCHANGED <<certificate, utility>>

(***************************************************************************)
(* CepAccount::submit_certificate                                          *)
(***************************************************************************)

\* nlohmann's dump() of {"Action": "CP_CERTIFICATE", "Data": data_hex}: the keys
\* in order, no white space; data_hex holds hexadecimal digits only
DumpOpen ==
    Bytes(<<"{", "\"", "A", "c", "t", "i", "o", "n", "\"", ":",
            "\"", "C", "P", "_", "C", "E", "R", "T", "I", "F", "I", "C", "A", "T", "E", "\"", ",",
            "\"", "D", "a", "t", "a", "\"", ":", "\"">>)
DumpClose == Bytes(<<"\"", "}">>)

payload_dump(data_hex) == DumpOpen \o data_hex \o DumpClose

C_TYPE_CERTIFICATE ==
    Bytes(<<"C", "_", "T", "Y", "P", "E", "_",
            "C", "E", "R", "T", "I", "F", "I", "C", "A", "T", "E">>)

\* lines 322-335: the payload, the string that is hashed and the ID
certificate_payload(pdata) == str_to_hex(payload_dump(str_to_hex(pdata)))

\* A variant of str_to_hash that holds the address once.
str_to_hash_one_address(chain, addr, payload, n, timestamp) ==
    hex_fix(chain) \o hex_fix(addr) \o payload \o to_string(n) \o timestamp

str_to_hash(chain, addr, payload, n, timestamp) ==
    hex_fix(chain) \o hex_fix(addr) \o hex_fix(addr) \o payload \o to_string(n) \o timestamp

transaction_id(chain, addr, payload, n, timestamp) ==
    bytes_to_hex(sha256(str_to_hash(chain, addr, payload, n, timestamp)))

\* A variant of transaction_record that sends the nonce the account will have
\* after the acknowledgment.
transaction_record_next_nonce(id, timestamp, payload, n, signature) ==
    [ID |-> id,
     From |-> hex_fix(address),
     To |-> hex_fix(address),
     Timestamp |-> timestamp,
     Payload |-> payload,
     Nonce |-> to_string(n + 1),
     Signature |-> signature,
     Blockchain |-> hex_fix(blockchain),
     Type |-> C_TYPE_CERTIFICATE,
     Version |-> code_version]

\* lines 345-356
transaction_record(id, timestamp, payload, n, signature) ==
    [ID |-> id,
     From |-> hex_fix(address),
     To |-> hex_fix(address),
     Timestamp |-> timestamp,
     Payload |-> payload,
     Nonce |-> to_string(n),
     Signature |-> signature,
     Blockchain |-> hex_fix(blockchain),
     Type |-> C_TYPE_CERTIFICATE,
     Version |-> code_version]

\* tm is the clock reading of get_formatted_timestamp; log_opens tells whether
\* sign_data can open its debug file
submit_certificate_begin(t, pdata, private_key_hex, tm, log_opens) ==
    /\ pc[t] = "idle"
    /\ op' = [op EXCEPT ![t] = "submit_certificate"]
    /\ rsp' = rsp
    /\ IF account_not_open
       THEN /\ last_error_' = Some(<<"Account is not open">>)
            /\ Return(t, RetBool(FALSE))
            /\ UNCHANGED <<req, loc>>
       ELSE LET payload == certificate_payload(pdata)
                timestamp == get_formatted_timestamp(tm)
                id == transaction_id(blockchain, address, payload, nonce, timestamp)
                signature_result == sign_data(address, id, private_key_hex)
                url == nag_url \o <<"Circular_AddTransaction_">> \o network_node
                logged == IF log_opens THEN private_key_hex ELSE <<>>
            IN  IF ~has_value(signature_result)
                THEN /\ last_error_' =
                            Some(<<"failed to sign data: ">> \o signature_result.error)
                     /\ Return(t, RetBool(FALSE))
                     /\ UNCHANGED <<req, loc>>
                ELSE IF ~parse_url(url).ok
                THEN /\ last_error_' = Some(<<"invalid URL format">>)
                     /\ Return(t, RetBool(FALSE))
                     /\ loc' = [loc EXCEPT ![t].id = id, ![t].debug_entry = logged]
                     /\ UNCHANGED req
                ELSE /\ Await(t, "wait",
                              Request(url, transaction_record(id, timestamp, payload,
                                               nonce, signature_result.value)))
                     /\ loc' = [loc EXCEPT ![t].id = id, ![t].requests = 1,
                                           ![t].debug_entry = logged]
                     /\ UNCHANGED last_error_
    /\ UNCHANGED <<address, public_key, code_version, nag_url, network_node, blockchain,
                   latest_tx_id, nonce, interval_sec, network_url, info_>>
    /\ UNCHANGED <<certificate, utility>>

\* lines 362-383: what submit_certificate makes of the result of post_json:
\* whether it returns true, and what it assigns to last_error_ (nullopt when it
\* assigns nothing)
submit_certificate_reply(result) ==
    IF ~has_value(result) THEN [ok |-> FALSE, error |-> Some(result.error)]
    ELSE LET data == result.value
         IN  IF contains(data, "Result") /\ is_number_integer(at(data, "Result"))
             THEN LET result_code == at(data, "Result").n
                  IN  IF result_code = 200
                      THEN [ok |-> TRUE, error |-> nullopt]
                      ELSE IF contains(data, "Response") /\ is_string(at(data, "Response"))
                      THEN [ok |-> FALSE,
                            error |-> Some(<<"certificate submission failed: ">>
                                              \o at(data, "Response").s)]
                      ELSE [ok |-> FALSE,
                            error |-> Some(<<"certificate submission failed with non-200 result code">>)]
             ELSE [ok |-> FALSE, error |-> nullopt]

\* Variants of submit_certificate_effect, each a slip the properties of the
\* nonce and of latest_tx_id must tell apart from the code: the nonce advanced
\* by two; latest_tx_id assigned before the result code is looked at; the nonce
\* advanced whatever the gateway answered.
submit_certificate_effect_twice(r, id) ==
    IF r.ok THEN [latest_tx_id |-> id, nonce |-> nonce + 2]
    ELSE [latest_tx_id |-> latest_tx_id, nonce |-> nonce]

submit_certificate_effect_early_id(r, id) ==
    [latest_tx_id |-> id, nonce |-> IF r.ok THEN nonce + 1 ELSE nonce]

submit_certificate_effect_always(r, id) ==
    [latest_tx_id |-> IF r.ok THEN id ELSE latest_tx_id, nonce |-> nonce + 1]

\* lines 371-372 on the path that returns true, nothing on the others: the
\* latest_tx_id and nonce submit_certificate leaves
submit_certificate_effect_same_nonce(r, id) ==
    [latest_tx_id |-> IF r.ok THEN id ELSE latest_tx_id, nonce |-> nonce]

submit_certificate_effect(r, id) ==
    IF r.ok THEN [latest_tx_id |-> id, nonce |-> nonce + 1]
    ELSE [latest_tx_id |-> latest_tx_id, nonce |-> nonce]

\* lines 367-382: whether a conversion of the reply throws on the path
\* submit_certificate takes through it; no try block encloses these lines
submit_certificate_throws(result) ==
    /\ has_value(result)
    /\ LET data == result.value
       IN  /\ contains(data, "Result") /\ is_number_integer(at(data, "Result"))
           /\ \/ get_integer_throws(at(data, "Result"))
              \/ /\ at(data, "Result").n # 200
                 /\ contains(data, "Response") /\ is_string(at(data, "Response"))
                 /\ get_string_throws(at(data, "Response"))

submit_certificate_end(t, http) ==
    /\ pc[t] = "wait" /\ op[t] = "submit_certificate"
    /\ rsp' = [rsp EXCEPT ![t] = http]
    /\ IF submit_certificate_throws(post_json(http))
       THEN Return(t, RetThrown) /\ UNCHANGED <<latest_tx_id, nonce, last_error_>>
       ELSE LET r == submit_certificate_reply(post_json(http))
                e == submit_certificate_effect(r, loc[t].id)
            IN  /\ latest_tx_id' = e.latest_tx_id
                /\ nonce' = e.nonce
                /\ last_error_' = IF r.error = nullopt THEN last_error_ ELSE r.error
                /\ Return(t, RetBool(r.ok))
    /\ UNCHANGED <<address, public_key, code_version, nag_url, network_node, blockchain,
                   interval_sec, network_url, info_>>
    /\ UNCHANGED <<op, loc, req>>
    /\ UNCHANGED <<certificate, utility>>

(***************************************************************************)
(* CepAccount::get_transaction, get_transaction_by_id                      *)
(***************************************************************************)

RECURSIVE SkipSpaces(_)
SkipSpaces(s) == IF s # <<>> /\ isspace(s[1]) THEN SkipSpaces(Tail(s)) ELSE s

RECURSIVE DigitRun(_)
DigitRun(s) == IF s # <<>> /\ IsDigit(s[1]) THEN <<s[1]>> \o DigitRun(Tail(s)) ELSE <<>>

RECURSIVE DecimalValue(_)
DecimalValue(ds) == IF ds = <<>> THEN 0
                    ELSE 10 * DecimalValue(SubSeq(ds, 1, Len(ds) - 1)) + (ds[Len(ds)] - 48)

\* std::stoll(str): strtoll skips leading white space, takes an optional sign and
\* the longest run of decimal digits, ignores what follows, and throws
\* std::invalid_argument when there is no digit
stoll(str) ==
    LET s == SkipSpaces(str)
        signed == s # <<>> /\ s[1] \in {43, 45}
        digits == DigitRun(IF signed THEN Tail(s) ELSE s)
    IN  IF digits = <<>> THEN [ok |-> FALSE, value |-> 0]
        ELSE [ok |-> TRUE,
              value |-> IF signed /\ s[1] = 45 THEN 0 - DecimalValue(digits)
                        ELSE DecimalValue(digits)]

\* A variant of get_transaction_by_id that turns to the default gateway when
\* the account is bound to none.
get_transaction_by_id_default_gateway(txid, start_block, end_block) ==
    LET request_data == [Blockchain |-> hex_fix(blockchain),
                         ID |-> hex_fix(txid),
                         Start |-> to_string(start_block),
                         End |-> to_string(end_block),
                         Version |-> code_version]
        gateway == IF nag_url = <<>> THEN DEFAULT_NAG ELSE nag_url
        url == gateway \o <<"Circular_GetTransactionbyID_">> \o network_node
    IN  IF ~parse_url(url).ok THEN Err(<<"invalid URL format">>)
        ELSE Ok(Request(url, request_data))

\* get_transaction_by_id up to its request: Err without any request when the
\* gateway URL is empty or post_json rejects the URL, else the request it sends
get_transaction_by_id(txid, start_block, end_block) ==
    IF nag_url = <<>> THEN Err(<<"network is not set">>)
    ELSE LET request_data == [Blockchain |-> hex_fix(blockchain),
                              ID |-> hex_fix(txid),
                              Start |-> to_string(start_block),
                              End |-> to_string(end_block),
                              Version |-> code_version]
             url == nag_url \o <<"Circular_GetTransactionbyID_">> \o network_node
         IN  IF ~parse_url(url).ok THEN Err(<<"invalid URL format">>)
             ELSE Ok(Request(url, request_data))

get_transaction_begin(t, block_id, txid) ==
    /\ pc[t] = "idle"
    /\ op' = [op EXCEPT ![t] = "get_transaction"]
    /\ rsp' = rsp
    /\ IF block_id = <<>>
       THEN /\ last_error_' = Some(<<"blockID cannot be empty">>)
            /\ Return(t, RetNullopt)
            /\ UNCHANGED <<req, loc>>
       ELSE IF ~stoll(block_id).ok
       THEN /\ last_error_' = Some(<<"invalid blockID">>)
            /\ Return(t, RetNullopt)
            /\ UNCHANGED <<req, loc>>
       ELSE LET start_block == stoll(block_id).value
                q == get_transaction_by_id(txid, start_block, start_block)
            IN  IF ~has_value(q)
                THEN /\ last_error_' =
                            Some(<<"failed to get transaction by ID: ">> \o q.error)
                     /\ Return(t, RetNullopt)
                     /\ UNCHANGED <<req, loc>>
                ELSE /\ Await(t, "wait", q.value)
                     /\ loc' = [loc EXCEPT ![t].tx_id = txid, ![t].requests = 1]
                     /\ UNCHANGED last_error_
    /\ UNCHANGED <<address, public_key, code_version, nag_url, network_node, blockchain,
                   latest_tx_id, nonce, interval_sec, network_url, info_>>
    /\ UNCHANGED <<certificate, utility>>

\* A variant of get_transaction_end that takes the transaction it has found
\* for the account's latest one.
get_transaction_end_tracks_latest(t, http) ==
    /\ pc[t] = "wait" /\ op[t] = "get_transaction"
    /\ rsp' = [rsp EXCEPT ![t] = http]
    /\ LET result == post_json(http)
       IN  IF has_value(result)
           THEN /\ Return(t, RetJson(result.value))
                /\ latest_tx_id' = loc[t].tx_id
                /\ UNCHANGED last_error_
           ELSE /\ last_error_' =
                       Some(<<"failed to get transaction by ID: ">> \o result.error)
                /\ Return(t, RetNullopt)
                /\ UNCHANGED latest_tx_id
    /\ UNCHANGED <<address, public_key, code_version, nag_url, network_node, blockchain,
                   nonce, interval_sec, network_url, info_>>
    /\ UNCHANGED <<op, loc, req>>
    /\ UNCHANGED <<certificate, utility>>

get_transaction_end(t, http) ==
    /\ pc[t] = "wait" /\ op[t] = "get_transaction"
    /\ rsp' = [rsp EXCEPT ![t] = http]
    /\ LET result == post_json(http)
       IN  IF has_value(result)
           THEN /\ Return(t, RetJson(result.value))
                /\ UNCHANGED last_error_
           ELSE /\ last_error_' =
                       Some(<<"failed to get transaction by ID: ">> \o result.error)
                /\ Return(t, RetNullopt)
    /\ UNCHANGED <<address, public_key, code_version, nag_url, network_node, blockchain,
                   latest_tx_id, nonce, interval_sec, network_url, info_>>
    /\ UNCHANGED <<op, loc, req>>
    /\ UNCHANGED <<certificate, utility>>

(***************************************************************************)
(* CepAccount::get_transaction_outcome                                     *)
(*                                                                         *)
(* loc[t].elapsed is steady_clock::now() - start_time in seconds.  One     *)
(* turn of the loop takes the sleep of poll_interval_sec plus a delay of   *)
(* 0..MaxDelay seconds for the exchange and for oversleeping.              *)
(***************************************************************************)

\* A variant of network_not_set that does not look at nag_url.
network_not_set_unchecked == FALSE

\* line 438: nag_url.empty()
network_not_set == nag_url = <<>>

get_transaction_outcome_begin(t, txid, timeout_sec, poll_interval_sec) ==
    /\ pc[t] = "idle"
    /\ op' = [op EXCEPT ![t] = "get_transaction_outcome"]
    /\ rsp' = rsp
    /\ IF network_not_set
       THEN /\ last_error_' = Some(<<"network is not set">>)
            /\ Return(t, RetNullopt)
            /\ UNCHANGED <<req, loc>>
       ELSE /\ pc' = [pc EXCEPT ![t] = "loop"]
            /\ loc' = [loc EXCEPT ![t].tx_id = txid, ![t].timeout_sec = timeout_sec,
                                  ![t].poll_interval_sec = poll_interval_sec,
                                  ![t].elapsed = 0]
            /\ UNCHANGED <<req, ret, last_error_>>
    /\ UNCHANGED <<address, public_key, code_version, nag_url, network_node, blockchain,
                   latest_tx_id, nonce, interval_sec, network_url, info_>>
    /\ UNCHANGED <<certificate, utility>>

\* A variant of outcome_throws for a loop that converts Status to a string
\* without testing is_string first.
outcome_throws_unguarded(result) ==
    /\ has_value(result)
    /\ LET data == result.value
       IN  /\ contains(data, "Result") /\ is_number_integer(at(data, "Result"))
           /\ \/ get_integer_throws(at(data, "Result"))
              \/ /\ at(data, "Result").n = 200
                 /\ contains(data, "Response")
                 /\ contains(at(data, "Response"), "Status")
                 /\ get_string_throws(at(at(data, "Response"), "Status"))

\* lines 456-471: whether a conversion of the reply throws on the path the
\* loop takes through it; no try block encloses these lines
outcome_throws(result) ==
    /\ has_value(result)
    /\ LET data == result.value
       IN  /\ contains(data, "Result") /\ is_number_integer(at(data, "Result"))
           /\ \/ get_integer_throws(at(data, "Result"))
              \/ /\ at(data, "Result").n = 200
                 /\ contains(data, "Response")
                 /\ contains(at(data, "Response"), "Status")
                 /\ is_string(at(at(data, "Response"), "Status"))
                 /\ get_string_throws(at(at(data, "Response"), "Status"))

\* Variants of outcome_of: one that ends the loop with the whole reply instead
\* of its Response; one that takes a "Pending" status for an outcome too.
outcome_of_whole_reply(result) ==
    IF ~has_value(result) THEN nullopt
    ELSE LET data == result.value
         IN  IF /\ contains(data, "Result") /\ is_number_integer(at(data, "Result"))
                /\ at(data, "Result").n = 200
                /\ contains(data, "Response")
                /\ contains(at(data, "Response"), "Status")
                /\ is_string(at(at(data, "Response"), "Status"))
                /\ at(at(data, "Response"), "Status").s # <<"Pending">>
             THEN Some(data)
             ELSE nullopt

outcome_of_any_status(result) ==
    IF ~has_value(result) THEN nullopt
    ELSE LET data == result.value
         IN  IF /\ contains(data, "Result") /\ is_number_integer(at(data, "Result"))
                /\ at(data, "Result").n = 200
                /\ contains(data, "Response")
                /\ contains(at(data, "Response"), "Status")
                /\ is_string(at(at(data, "Response"), "Status"))
             THEN Some(at(data, "Response"))
             ELSE nullopt

\* lines 456-471: the Response a poll's reply ends the loop with, nullopt if none
outcome_of(result) ==
    IF ~has_value(result) THEN nullopt
    ELSE LET data == result.value
         IN  IF /\ contains(data, "Result") /\ is_number_integer(at(data, "Result"))
                /\ at(data, "Result").n = 200
                /\ contains(data, "Response")
                /\ contains(at(data, "Response"), "Status")
                /\ is_string(at(at(data, "Response"), "Status"))
                /\ at(at(data, "Response"), "Status").s # <<"Pending">>
             THEN Some(at(data, "Response"))
             ELSE nullopt

\* A variant of get_transaction_outcome_poll that, once the elapsed time exceeds
\* timeout_sec, starts its clock and its count of requests again instead of
\* giving up.
get_transaction_outcome_poll_restarts(t, delay) ==
    /\ pc[t] = "loop"
    /\ IF loc[t].elapsed > loc[t].timeout_sec
       THEN /\ loc' = [loc EXCEPT ![t].elapsed = 0, ![t].requests = 0]
            /\ UNCHANGED <<pc, req, ret, last_error_>>
       ELSE LET q == get_transaction_by_id(loc[t].tx_id, 0, 10)
            IN  IF has_value(q)
                THEN /\ Await(t, "wait", q.value)
                     /\ loc' = [loc EXCEPT ![t].requests = @ + 1]
                     /\ UNCHANGED last_error_
                ELSE /\ loc' = [loc EXCEPT
                                  ![t].elapsed = @ + delay + loc[t].poll_interval_sec]
                     /\ UNCHANGED <<pc, req, ret, last_error_>>
    /\ UNCHANGED <<address, public_key, code_version, nag_url, network_node, blockchain,
                   latest_tx_id, nonce, interval_sec, network_url, info_>>
    /\ UNCHANGED <<op, rsp>>
    /\ UNCHANGED <<certificate, utility>>

\* the top of the loop: the timeout test, then the poll's request; a poll that
\* get_transaction_by_id fails without a request goes on to the sleep at once
get_transaction_outcome_poll(t, delay) ==
    /\ pc[t] = "loop"
    /\ IF loc[t].elapsed > loc[t].timeout_sec
       THEN /\ last_error_' =
                   Some(<<"timeout exceeded while waiting for transaction outcome">>)
            /\ Return(t, RetNullopt)
            /\ UNCHANGED <<req, loc>>
       ELSE LET q == get_transaction_by_id(loc[t].tx_id, 0, 10)
            IN  IF has_value(q)
                THEN /\ Await(t, "wait", q.value)
                     /\ loc' = [loc EXCEPT ![t].requests = @ + 1]
                     /\ UNCHANGED last_error_
                ELSE /\ loc' = [loc EXCEPT
                                  ![t].elapsed = @ + delay + loc[t].poll_interval_sec]
                     /\ UNCHANGED <<pc, req, ret, last_error_>>
    /\ UNCHANGED <<address, public_key, code_version, nag_url, network_node, blockchain,
                   latest_tx_id, nonce, interval_sec, network_url, info_>>
    /\ UNCHANGED <<op, rsp>>
    /\ UNCHANGED <<certificate, utility>>

\* the poll's reply: return a Response that is not pending, or sleep and loop
get_transaction_outcome_reply(t, http, delay) ==
    /\ pc[t] = "wait" /\ op[t] = "get_transaction_outcome"
    /\ LET outcome == outcome_of(post_json(http))
       IN  IF outcome_throws(post_json(http))
           THEN /\ Return(t, RetThrown)
                /\ rsp' = [rsp EXCEPT ![t] = http]
                /\ UNCHANGED loc
           ELSE IF outcome # nullopt
           THEN /\ Return(t, RetJson(outcome[1]))
                /\ rsp' = [rsp EXCEPT ![t] = http]
                /\ UNCHANGED loc
           ELSE /\ pc' = [pc EXCEPT ![t] = "loop"]
                /\ loc' = [loc EXCEPT
                             ![t].elapsed = @ + delay + loc[t].poll_interval_sec]
                /\ UNCHANGED <<ret, rsp>>
    /\ UNCHANGED <<fields, op, req>>
    /\ UNCHANGED <<certificate, utility>>

(***************************************************************************)
(* The inputs of the calls and the replies of the services                 *)
(***************************************************************************)

AddrA == Bytes(<<"0", "x", "A", "b", "1">>)
AddrB == Bytes(<<"c", "d">>)
OpenInputs == {<<>>, AddrA, AddrB}

NetworkNames == {<<>>, <<"testnet">>}

\* a 32-byte key below the group order, with prefix and upper-case digits
KeyGood ==
    Bytes(<<
        "0", "x", "4", "C", "0", "8", "8", "3", "A", "6", "9", "1", "0", "2", "9", "3",
        "7", "D", "6", "2", "3", "1", "4", "7", "1", "B", "5", "D", "B", "B", "6", "2",
        "0", "4", "F", "E", "5", "1", "2", "9", "6", "1", "7", "0", "8", "2", "7", "9",
        "2", "A", "E", "4", "6", "8", "D", "0", "1", "A", "3", "F", "3", "6", "2", "3",
        "1", "8" >>)
\* a key of 16 bytes
KeyShort ==
    Bytes(<<
        "4", "c", "0", "8", "8", "3", "a", "6", "9", "1", "0", "2", "9", "3", "7", "d",
        "6", "2", "3", "1", "4", "7", "1", "b", "5", "d", "b", "b", "6", "2", "0", "4" >>)
\* 32 bytes that are no scalar of the group: zero
KeyZero == Bytes([i \in 1..64 |-> "0"])
\* 32 byte positions, the last of which holds no hexadecimal digit
KeyNoHex == Bytes([i \in 1..64 |-> IF i >= 63 THEN "z" ELSE "1"])
KeyInputs == {KeyGood, KeyShort, KeyZero, KeyNoHex}

DataInputs == {Bytes(<<"H", "i">>)}

ClockReadings ==
    {[year |-> 2026, mon |-> 1, mday |-> 2, hour |-> 3, min |-> 4, sec |-> s] : s \in {5, 6}}

BlockIds == {<<>>, Bytes(<<"7">>), Bytes(<<"x">>), Bytes(<<"7", "x">>)}
TxIds == {Bytes(<<"0", "x", "A", "B", "C">>)}

\* the (timeout_sec, poll_interval_sec) pairs get_transaction_outcome is called with
PollInputs == {<<1, 1>>}

\* the URL a discovery reply names: a usable one, or one that is not https
NagUrls == {<<"https://", "nag.test", "/gw/">>, <<"http://", "nag.test", "/gw/">>}

DiscoveryJson ==
    {JObj([status |-> JStr(<<"success">>), url |-> JStr(u), message |-> JStr(<<>>)]) :
        u \in NagUrls}
    \cup {JObj([status |-> JStr(<<"success">>), url |-> JStr(<<>>),
                message |-> JStr(<<"no gateway">>)]),
          JObj([status |-> JStr(<<"error">>), message |-> JStr(<<"unknown network">>)]),
          JObj([url |-> JStr(<<"https://", "nag.test", "/gw/">>)]),
          JObj([status |-> JInt(1)]),
          JObj([status |-> JStr(<<"success">>),
                url |-> JStr(<<"https://", "nag.test", "/gw/">>), message |-> JInt(1)]),
          JStr(<<"success">>)}

DiscoveryReplies ==
    {NoResponse, HttpStatus(500), HttpGarbage} \cup {HttpJson(j) : j \in DiscoveryJson}

GatewayJson ==
    {JObj([Result |-> JInt(200), Response |-> JObj([Nonce |-> JInt(n)])]) :
        n \in 0..(MaxNonce - 1)}
    \cup {JObj([Result |-> JInt(200), Response |-> JObj([Status |-> JStr(<<s>>)])]) :
             s \in {"Pending", "Executed"}}
    \cup {JObj([Result |-> JInt(200), Response |-> JObj([Nonce |-> JStr(<<"1">>)])]),
          JObj([Result |-> JInt(200), Response |-> JObj([Status |-> JInt(1)])]),
          JObj([Result |-> JInt(200), Response |-> JStr(<<"ok">>)]),
          JObj([Result |-> JInt(200)]),
          JObj([Result |-> JInt(114)]),
          JObj([Result |-> JInt(115)]),
          JObj([Result |-> JInt(500), Response |-> JStr(<<"boom">>)]),
          JObj([Result |-> JInt(500)]),
          JObj([Result |-> JStr(<<"200">>)]),
          JObj([Response |-> JStr(<<"boom">>)]),
          JFloat}

GatewayReplies ==
    {NoResponse, HttpStatus(500), HttpGarbage} \cup {HttpJson(j) : j \in GatewayJson}

(***************************************************************************)
(* Spec: one caller that awaits each task before its next call             *)
(***************************************************************************)

Quiet == \A t \in TaskIds : pc[t] = "idle"

Next ==
    \/ Quiet /\ \E a \in OpenInputs : open(a)
    \/ Quiet /\ close
    \/ Quiet /\ \E n \in NetworkNames : set_network_begin(1, n)
    \/ \E h \in DiscoveryReplies : set_network_end(1, h)
    \/ Quiet /\ update_account_begin(1)
    \/ \E h \in GatewayReplies : update_account_end(1, h)
    \/ Quiet /\ nonce < MaxNonce
          /\ \E d \in DataInputs, k \in KeyInputs, tm \in ClockReadings, w \in BOOLEAN :
                submit_certificate_begin(1, d, k, tm, w)
    \/ \E h \in GatewayReplies : submit_certificate_end(1, h)
    \/ Quiet /\ \E b \in BlockIds, x \in TxIds : get_transaction_begin(1, b, x)
    \/ \E h \in GatewayReplies : get_transaction_end(1, h)
    \/ Quiet /\ \E x \in TxIds, p \in PollInputs :
                   get_transaction_outcome_begin(1, x, p[1], p[2])
    \/ \E d \in 0..MaxDelay : get_transaction_outcome_poll(1, d)
    \/ \E h \in GatewayReplies, d \in 0..MaxDelay : get_transaction_outcome_reply(1, h, d)
    \/ task_get(1)

Spec == Init /\ [][Next]_vars

(***************************************************************************)
(* SpecOverlap: a caller that starts calls on one account without awaiting *)
(* the tasks already in flight.  CepAccount holds no mutex and no atomic   *)
(* field; the tasks are interleaved here at their HTTP exchanges only.     *)
(***************************************************************************)

OverlapClock == [year |-> 2026, mon |-> 1, mday |-> 2, hour |-> 3, min |-> 4, sec |-> 5]

OverlapReplies ==
    {NoResponse,
     HttpJson(JObj([Result |-> JInt(200), Response |-> JObj([Nonce |-> JInt(0)])])),
     HttpJson(JObj([Result |-> JInt(500), Response |-> JStr(<<"boom">>)]))}

NextOverlap ==
    \/ open(AddrA)
    \/ close
    \/ \E t \in TaskIds : update_account_begin(t)
    \/ \E t \in TaskIds, h \in OverlapReplies : update_account_end(t, h)
    \/ \E t \in TaskIds, d \in DataInputs :
          nonce < MaxNonce /\ submit_certificate_begin(t, d, KeyGood, OverlapClock, FALSE)
    \/ \E t \in TaskIds, h \in OverlapReplies : submit_certificate_end(t, h)
    \/ \E t \in TaskIds : task_get(t)

SpecOverlap == Init /\ [][NextOverlap]_vars

(***************************************************************************)
(* SpecId: a caller that awaits each task and does what the transaction ID *)
(* can depend on: it opens accounts, sets the blockchain, binds a network, *)
(* and submits several data under several keys at several times.           *)
(***************************************************************************)

\* a second key that signs: the scalar 1
KeyOne == Bytes([i \in 1..64 |-> IF i = 64 THEN "1" ELSE "0"])

IdKeys == {KeyGood, KeyOne}
IdData == {Bytes(<<"H", "i">>), Bytes(<<"H", "o">>)}
IdChains == {DEFAULT_CHAIN, Bytes(<<"0", "X", "1", "F", "e">>)}

IdDiscoveryReplies ==
    {NoResponse,
     HttpJson(JObj([status |-> JStr(<<"success">>),
                    url |-> JStr(<<"https://", "nag.test", "/gw/">>),
                    message |-> JStr(<<>>)]))}

IdGatewayReplies ==
    {HttpJson(JObj([Result |-> JInt(200), Response |-> JStr(<<"ok">>)])),
     HttpJson(JObj([Result |-> JInt(500), Response |-> JStr(<<"boom">>)]))}

NextId ==
    \/ Quiet /\ \E a \in {AddrA, AddrB} : open(a)
    \/ Quiet /\ \E b \in IdChains : set_blockchain(b)
    \/ Quiet /\ set_network_begin(1, <<"testnet">>)
    \/ \E h \in IdDiscoveryReplies : set_network_end(1, h)
    \/ Quiet /\ nonce < MaxNonce
          /\ \E d \in IdData, k \in IdKeys, tm \in ClockReadings :
                submit_certificate_begin(1, d, k, tm, FALSE)
    \/ \E h \in IdGatewayReplies : submit_certificate_end(1, h)
    \/ task_get(1)

SpecId == Init /\ [][NextId]_vars

(***************************************************************************)
(* SpecHex: hex_fix applied to the blockchain field of accounts whose       *)
(* blockchain set_blockchain has set to any short string                   *)
(***************************************************************************)

\* the longest string hex_fix is applied to
MaxHexLen == 3

\* digits, the letters of the prefix, a lower-case and an upper-case
\* hexadecimal letter, and a letter that is no hexadecimal digit
HexAlphabet == {Ord("0"), Ord("x"), Ord("X"), Ord("a"), Ord("F"), Ord("g")}

HexInputs == UNION {[1..n -> HexAlphabet] : n \in 0..MaxHexLen}

\* an account opened under AddrB whose blockchain is one of HexInputs
InitHex ==
    /\ address = AddrB
    /\ public_key = <<>>
    /\ code_version = LIB_VERSION
    /\ nag_url = DEFAULT_NAG
    /\ network_node = <<>>
    /\ blockchain \in HexInputs
    /\ latest_tx_id = <<>>
    /\ nonce = 0
    /\ interval_sec = 2
    /\ network_url = DEFAULT_NETWORK_URL
    /\ info_ = nullopt
    /\ last_error_ = nullopt
    /\ pc = [t \in TaskIds |-> "idle"]
    /\ op = [t \in TaskIds |-> "none"]
    /\ loc = [t \in TaskIds |-> NoLoc]
    /\ req = [t \in TaskIds |-> NoReq]
    /\ rsp = [t \in TaskIds |-> NoResponse]
    /\ ret = [t \in TaskIds |-> RetBool(FALSE)]
    /\ CCertificate_new
    /\ original = <<>> /\ hex_string = <<>> /\ decoded = NotDecoded

NextHex ==
    \/ Quiet /\ update_account_begin(1)
    \/ update_account_end(1, NoResponse)
    \/ task_get(1)

SpecHex == InitHex /\ [][NextHex]_vars

(***************************************************************************)
(* SpecPoll: a caller that polls for outcomes, with several timeouts and   *)
(* intervals, on an account it may close and bind to a gateway again       *)
(***************************************************************************)

\* the (timeout_sec, poll_interval_sec) pairs of the polling caller
PollCalls == {<<0, 1>>, <<1, 1>>, <<2, 1>>, <<1, 2>>}

get_transaction_outcome_call(t) ==
    \E x \in TxIds, p \in PollCalls : get_transaction_outcome_begin(t, x, p[1], p[2])

get_transaction_outcome_turn(t) ==
    \E d \in 0..MaxDelay : get_transaction_outcome_poll(t, d)

get_transaction_outcome_exchange(t) ==
    \E h \in GatewayReplies, d \in 0..MaxDelay : get_transaction_outcome_reply(t, h, d)

NextPoll ==
    \/ Quiet /\ close
    \/ Quiet /\ set_network_begin(1, <<"testnet">>)
    \/ \E h \in IdDiscoveryReplies : set_network_end(1, h)
    \/ Quiet /\ get_transaction_outcome_call(1)
    \/ get_transaction_outcome_turn(1)
    \/ get_transaction_outcome_exchange(1)
    \/ task_get(1)

SpecPoll == Init /\ [][NextPoll]_vars

\* SpecPoll where the task's thread keeps running and every HTTP exchange ends
\* (httplib's connection and read timeouts are 30 seconds)
SpecPollFair ==
    /\ Init /\ [][NextPoll]_vars
    /\ WF_vars(get_transaction_outcome_turn(1))
    /\ WF_vars(get_transaction_outcome_exchange(1))

(***************************************************************************)
(* Vocabulary of the properties                                            *)
(***************************************************************************)

\* the HTTP reply h carries a JSON body whose Result is the integer 200
Acknowledged(h) ==
    /\ h.arrived /\ h.status = 200 /\ h.parses
    /\ contains(h.json, "Result")
    /\ is_number_integer(at(h.json, "Result"))
    /\ at(h.json, "Result").n = 200

\* this step belongs to a call running as task t (it is not the caller's get)
TaskStep(t) == pc[t] # "ret" /\ (pc'[t] # pc[t] \/ loc'[t] # loc[t])

\* in this step the call running as task t returns
Returns(t) == pc[t] # "ret" /\ pc'[t] = "ret"

(***************************************************************************)
(* Properties of submit_certificate                                        *)
(***************************************************************************)

\* C1: when submit_certificate has received a response whose Result is the
\* integer 200 it returns true, latest_tx_id is the ID it computed and sent in
\* the request, and nonce is the nonce it put into the request plus one.
C1_AcknowledgedSubmit ==
    \A t \in TaskIds :
        (pc[t] = "ret" /\ op[t] = "submit_certificate" /\ Acknowledged(rsp[t]))
        => /\ ret[t] = RetBool(TRUE)
           /\ latest_tx_id = req[t].body.ID
           /\ latest_tx_id = loc[t].id
           /\ nonce = stoll(req[t].body.Nonce).value + 1

\* an acknowledged submit_certificate that started at nonce 1
C1_Witness ==
    \E t \in TaskIds :
        /\ pc[t] = "ret" /\ op[t] = "submit_certificate" /\ Acknowledged(rsp[t])
        /\ req[t].body.Nonce = to_string(1)

\* C2: every step of a submit_certificate call that does not return true (the
\* account not open, a signing failure, a transport error, a result code other
\* than 200, a missing or non-integer Result) leaves nonce and latest_tx_id
\* as they were.
C2_FailedSubmitFrame ==
    [][\A t \in TaskIds :
          (op'[t] = "submit_certificate" /\ TaskStep(t)
           /\ ~(pc'[t] = "ret" /\ ret'[t].ok))
          => UNCHANGED <<nonce, latest_tx_id>>]_vars

\* a submit_certificate refused by the gateway after an acknowledged one
C2_Witness ==
    \E t \in TaskIds :
        /\ pc[t] = "ret" /\ op[t] = "submit_certificate" /\ ~ret[t].ok
        /\ rsp[t].arrived /\ rsp[t].parses /\ ~Acknowledged(rsp[t])
        /\ nonce > 0 /\ latest_tx_id # <<>>

\* C3: two submit_certificate tasks in flight on one account at the same time
\* never carry the same Nonce in their requests (the read of nonce and its
\* increment after the acknowledgment are not separated by another task's
\* read).
C3_OverlappingSubmitsDistinctNonces ==
    \A t1, t2 \in TaskIds :
        (/\ t1 # t2
         /\ pc[t1] = "wait" /\ op[t1] = "submit_certificate"
         /\ pc[t2] = "wait" /\ op[t2] = "submit_certificate")
        => req[t1].body.Nonce # req[t2].body.Nonce

(***************************************************************************)
(* Properties of nonce                                                     *)
(***************************************************************************)

\* the HTTP reply h is a nonce reply: Result 200 with an integer Response.Nonce
NonceReply(h) ==
    /\ Acknowledged(h)
    /\ contains(h.json, "Response")
    /\ contains(at(h.json, "Response"), "Nonce")
    /\ is_number_integer(at(at(h.json, "Response"), "Nonce"))

ReportedNonce(h) == at(at(h.json, "Response"), "Nonce").n

\* C4 (as stated): no step of a set_network, update_account,
\* submit_certificate, get_transaction or get_transaction_outcome call on an
\* account whose address does not change leaves nonce smaller than it was.
C4_NonceNeverDecreases ==
    [][\A t \in TaskIds :
          (TaskStep(t) /\ address' = address) => nonce' >= nonce]_vars

\* C4 (amended): no step of a set_network, submit_certificate, get_transaction
\* or get_transaction_outcome call, and no step of an update_account call that
\* fails, leaves nonce smaller than it was; only an update_account that
\* returns true can, and it stores the Nonce the gateway reported plus one.
C4_NonceLoweredOnlyByUpdateAccount ==
    [][\A t \in TaskIds :
          (TaskStep(t) /\ address' = address /\ nonce' < nonce)
          => /\ op[t] = "update_account" /\ pc[t] = "wait" /\ pc'[t] = "ret"
             /\ ret'[t].ok
             /\ NonceReply(rsp'[t])
             /\ nonce' = ReportedNonce(rsp'[t]) + 1]_vars

\* update_account has returned true and stored nonce 1 on an account whose
\* last acknowledged submit_certificate was sent at nonce 1, and so left 2
C4_Witness ==
    \E t \in TaskIds, d \in DataInputs, tm \in ClockReadings :
        /\ pc[t] = "ret" /\ op[t] = "update_account" /\ ret[t].ok
        /\ nonce = 1
        /\ latest_tx_id = transaction_id(blockchain, address, certificate_payload(d),
                                         1, get_formatted_timestamp(tm))

\* C5: nonce increases only in a step that handles a gateway response whose
\* Result is the integer 200, in submit_certificate or in update_account.
C5_NonceAdvancesOnConfirmation ==
    [][nonce' > nonce
       => \E t \in TaskIds :
             /\ pc[t] = "wait" /\ pc'[t] = "ret"
             /\ op[t] \in {"submit_certificate", "update_account"}
             /\ Acknowledged(rsp'[t])]_vars

\* update_account alone has advanced the nonce of an account to MaxNonce
C5_Witness ==
    \E t \in TaskIds :
        /\ pc[t] = "ret" /\ op[t] = "update_account" /\ ret[t].ok
        /\ NonceReply(rsp[t])
        /\ nonce = MaxNonce /\ latest_tx_id = <<>>

(***************************************************************************)
(* Properties of the requests                                              *)
(***************************************************************************)

ConsultingOps ==
    {"update_account", "submit_certificate", "get_transaction", "get_transaction_outcome"}

\* C6 (as stated): no update_account, submit_certificate, get_transaction or
\* get_transaction_outcome call has a gateway request in flight while address
\* is empty or nag_url is empty.
C6_NoRequestUnlessOpenAndConfigured ==
    \A t \in TaskIds :
        (pc[t] = "wait" /\ op[t] \in ConsultingOps)
        => (address # <<>> /\ nag_url # <<>>)

\* C6 (amended): no such call has a gateway request in flight while nag_url
\* is empty, and update_account and submit_certificate have none while
\* address is empty; get_transaction and get_transaction_outcome do not look
\* at address.
C6_RequestNeedsGatewayAndWritesNeedAddress ==
    \A t \in TaskIds :
        (pc[t] = "wait" /\ op[t] \in ConsultingOps)
        => /\ req[t].sent
           /\ nag_url # <<>>
           /\ (op[t] \in {"update_account", "submit_certificate"} => address # <<>>)

\* after close() and open(): update_account has returned without any request
C6_Witness ==
    \E t \in TaskIds :
        /\ pc[t] = "ret" /\ op[t] = "update_account" /\ ~ret[t].ok
        /\ address # <<>> /\ nag_url = <<>>
        /\ loc[t].requests = 0 /\ ~req[t].sent

(***************************************************************************)
(* Properties of last_error                                                *)
(***************************************************************************)

\* C7 (as stated): after a call that returned false or nullopt, last_error
\* holds a message.
C7_FailureRecordsError ==
    \A t \in TaskIds :
        (pc[t] = "ret" /\ op[t] # "none" /\ ~ret[t].ok) => last_error_ # nullopt

\* C8: last_error is empty on a fresh account; it changes only in a step in
\* which a call fails (so every call that succeeds, and close, leave it as it
\* is), and it is never empty again once it holds a message.
C8_LastErrorSticky ==
    /\ last_error_ = nullopt
    /\ [][/\ last_error_' # last_error_
             => \/ \E t \in TaskIds : Returns(t) /\ ~ret'[t].ok
                \/ \E a \in OpenInputs : open(a) /\ ~open_result(a)
          /\ last_error_ # nullopt => last_error_' # nullopt]_vars

\* submit_certificate has returned true on an account that holds an error
C8_Witness ==
    \E t \in TaskIds :
        /\ pc[t] = "ret" /\ op[t] = "submit_certificate" /\ ret[t].ok
        /\ last_error_ # nullopt

(***************************************************************************)
(* Properties of update_account and of the account that is not open        *)
(***************************************************************************)

\* C9: update_account returns true and stores the reported Nonce plus one on
\* a reply with Result 200 and an integer Response.Nonce; on every other
\* reply (114, 115, another code, no integer Result, 200 without an integer
\* Response.Nonce) and on every transport error it returns false, leaves
\* nonce as it was and leaves a message in last_error.
C9_UpdateAccountByResultCode ==
    [][\A t \in TaskIds :
          (op'[t] = "update_account" /\ Returns(t))
          => IF pc[t] = "wait" /\ NonceReply(rsp'[t])
             THEN /\ ret'[t] = RetBool(TRUE)
                  /\ nonce' = ReportedNonce(rsp'[t]) + 1
             ELSE /\ ret'[t] = RetBool(FALSE)
                  /\ nonce' = nonce
                  /\ last_error_' # nullopt]_vars

\* update_account refused with Result 114 on an account whose nonce is 1
C9_Witness ==
    \E t \in TaskIds :
        /\ pc[t] = "ret" /\ op[t] = "update_account" /\ ~ret[t].ok
        /\ rsp[t] = HttpJson(JObj([Result |-> JInt(114)]))
        /\ nonce = 1

\* C10: started while address is empty, update_account and submit_certificate
\* return false at once with their account-not-open message in last_error;
\* they send no request, compute and sign no ID, log nothing, and leave every
\* other field of the account as it was.
C10_NotOpenRefused ==
    [][\A t \in TaskIds :
          (/\ pc[t] = "idle" /\ pc'[t] # "idle"
           /\ op'[t] \in {"update_account", "submit_certificate"}
           /\ address = <<>>)
          => /\ pc'[t] = "ret" /\ ret'[t] = RetBool(FALSE)
             /\ last_error_' = IF op'[t] = "update_account"
                               THEN Some(<<"Account not open">>)
                               ELSE Some(<<"Account is not open">>)
             /\ req'[t] = NoReq /\ loc'[t] = NoLoc
             /\ UNCHANGED <<address, public_key, code_version, nag_url, network_node,
                            blockchain, latest_tx_id, nonce, interval_sec, network_url,
                            info_>>]_vars

\* submit_certificate refused on a fresh account, whose gateway URL is set
C10_Witness ==
    \E t \in TaskIds :
        /\ pc[t] = "ret" /\ op[t] = "submit_certificate" /\ ~ret[t].ok
        /\ address = <<>> /\ nag_url = DEFAULT_NAG
        /\ last_error_ = Some(<<"Account is not open">>)

(***************************************************************************)
(* Properties of signing and of the request of submit_certificate          *)
(***************************************************************************)

\* the key does not decode to 32 bytes that are a scalar of the group
UnusableKey(private_key_hex) ==
    LET key_bytes == hex_to_bytes(private_key_hex)
    IN  \/ key_bytes.threw
        \/ Len(key_bytes.bytes) # 32
        \/ \A i \in 1..Len(key_bytes.bytes) : key_bytes.bytes[i] = 0
        \/ ~LexLess(key_bytes.bytes, CurveOrder)

UnusableKeys == {k \in KeyInputs : UnusableKey(k)}

\* C11: a submit_certificate call on an open account with a private key that
\* does not decode to exactly 32 bytes, or is no valid scalar, returns false
\* with a signing failure in last_error, sends no request, and leaves nonce
\* and latest_tx_id as they were.
C11_SigningFailureRefused ==
    [][\A t \in TaskIds :
          (pc[t] = "idle" /\ op'[t] = "submit_certificate" /\ address # <<>>)
          => \A k \in UnusableKeys, d \in DataInputs, tm \in ClockReadings, w \in BOOLEAN :
                submit_certificate_begin(t, d, k, tm, w)
                => /\ pc'[t] = "ret" /\ ret'[t] = RetBool(FALSE)
                   /\ last_error_' # nullopt
                   /\ last_error_'[1][1] = "failed to sign data: "
                   /\ req'[t] = NoReq /\ loc'[t].requests = 0
                   /\ UNCHANGED <<nonce, latest_tx_id>>]_vars

\* submit_certificate refused for a 16-byte key after an acknowledged one
C11_Witness ==
    \E t \in TaskIds :
        /\ pc[t] = "ret" /\ op[t] = "submit_certificate" /\ ~ret[t].ok
        /\ last_error_ = Some(<<"failed to sign data: ",
                                "private key must be 32 bytes long">>)
        /\ nonce > 0 /\ latest_tx_id # <<>>

\* C12: in every record submit_certificate has sent, the ID is the hash of
\* hex_fix(blockchain), hex_fix(address) twice, the Payload, the Nonce and
\* the Timestamp of that same record; the Nonce is the decimal string of the
\* nonce before its increment; From and To are hex_fix(address), Blockchain
\* is hex_fix(blockchain), Type is "C_TYPE_CERTIFICATE", and the Signature is
\* a signature of the ID that is sent.
C12_RecordAgreesWithId ==
    \A t \in TaskIds :
        (op[t] = "submit_certificate" /\ req[t].sent)
        => LET b == req[t].body
           IN  /\ b.ID = bytes_to_hex(sha256(hex_fix(blockchain) \o hex_fix(address)
                                             \o hex_fix(address) \o b.Payload
                                             \o b.Nonce \o b.Timestamp))
               /\ b.Nonce = to_string(IF pc[t] = "ret" /\ ret[t].ok
                                      THEN nonce - 1 ELSE nonce)
               /\ b.From = hex_fix(address) /\ b.To = hex_fix(address)
               /\ b.Blockchain = hex_fix(blockchain)
               /\ b.Type = Bytes(<<"C", "_", "T", "Y", "P", "E", "_", "C", "E", "R", "T",
                                   "I", "F", "I", "C", "A", "T", "E">>)
               /\ \E k \in KeyInputs :
                     b.Signature = bytes_to_hex(secp256k1_ecdsa_sign(
                                       sha256(b.ID), hex_to_bytes(k).bytes))

\* a record in flight from an account at nonce 1 whose address has a prefix,
\* upper-case digits and an odd length
C12_Witness ==
    \E t \in TaskIds :
        /\ pc[t] = "wait" /\ op[t] = "submit_certificate" /\ req[t].sent
        /\ nonce = 1 /\ address = AddrA
        /\ req[t].body.From # address

\* the ID the five inputs determine: the hash of hex_fix(blockchain),
\* hex_fix(address) twice, the payload in hexadecimal, the decimal nonce and
\* the timestamp
IdOf(data, n, tm, addr, chain) ==
    bytes_to_hex(sha256(hex_fix(chain) \o hex_fix(addr) \o hex_fix(addr)
                        \o certificate_payload(data) \o to_string(n)
                        \o get_formatted_timestamp(tm)))

\* C13: the ID a submit_certificate call computes is IdOf of its data, of
\* the nonce, address and blockchain of the account and of the timestamp,
\* whatever the private key, last_error, latest_tx_id and the gateway URL
\* are: equal values of the five give equal IDs.
C13_IdDeterminedByFiveInputs ==
    [][\A t \in TaskIds :
          (pc[t] = "idle" /\ op'[t] = "submit_certificate" /\ loc'[t].id # <<>>)
          => \A d \in IdData, k \in IdKeys, tm \in ClockReadings :
                submit_certificate_begin(t, d, k, tm, FALSE)
                => loc'[t].id = IdOf(d, nonce, tm, address, blockchain)]_vars

\* the ID of "Ho" at nonce 1 on another blockchain, computed under the key 1
\* by an account that holds an error, an earlier ID and a discovered gateway
C13_Witness ==
    \E t \in TaskIds, tm \in ClockReadings :
        /\ pc[t] = "wait" /\ op[t] = "submit_certificate"
        /\ loc[t].id = IdOf(Bytes(<<"H", "o">>), 1, tm, AddrA,
                            Bytes(<<"0", "X", "1", "F", "e">>))
        /\ req[t].body.Signature =
              bytes_to_hex(secp256k1_ecdsa_sign(sha256(loc[t].id),
                                                hex_to_bytes(KeyOne).bytes))
        /\ last_error_ # nullopt /\ latest_tx_id # <<>> /\ nag_url # DEFAULT_NAG

(***************************************************************************)
(* Properties of set_network and get_nag                                   *)
(***************************************************************************)

C15_EmptyNetworkNameRefused ==
    [][\A t \in TaskIds :
          (/\ pc[t] = "idle" /\ pc'[t] # "idle"
           /\ op'[t] = "set_network" /\ loc'[t].network = <<>>)
          => /\ pc'[t] = "ret" /\ ret'[t] = RetBool(FALSE)
             /\ last_error_' = Some(<<"network identifier cannot be empty">>)
             /\ req'[t] = NoReq /\ loc'[t].requests = 0
             /\ UNCHANGED <<nag_url, network_node>>]_vars

\* set_network("") refused on an account bound to a discovered gateway
C15_Witness ==
    \E t \in TaskIds :
        /\ pc[t] = "ret" /\ op[t] = "set_network" /\ loc[t].network = <<>>
        /\ last_error_ = Some(<<"network identifier cannot be empty">>)
        /\ ~req[t].sent
        /\ nag_url = <<"https://", "nag.test", "/gw/">>

\* the member `key` of a reply body is present and a string
StringMember(j, key) == contains(j, key) /\ is_string(at(j, key))
\* its text, empty where the member is absent
MemberText(j, key) == IF StringMember(j, key) THEN at(j, key).s ELSE <<>>

\* the reply came with HTTP status 200 and a body that parses as JSON
Parsed(h) == h.arrived /\ h.status = 200 /\ h.parses

\* status is "success" and url is not empty
SuccessWithUrl(h) ==
    /\ Parsed(h)
    /\ StringMember(h.json, "status") /\ at(h.json, "status").s = <<"success">>
    /\ StringMember(h.json, "url") /\ at(h.json, "url").s # <<>>

\* the body is an object whose status, url and message, where present, are strings
WellTyped(h) ==
    /\ h.json.k = "object"
    /\ \A key \in {"status", "url", "message"} :
          contains(h.json, key) => is_string(at(h.json, key))

\* the error that carries the reply's message
DiscoveryRejected(h) ==
    Some(<<"failed to get valid NAG URL from response: ">> \o MemberText(h.json, "message"))

\* C16 as stated: discovery succeeds with the reply's url exactly when the
\* reply has status 200, parses as JSON, and has status "success" and a
\* non-empty url; every other parsed reply fails with the error carrying the
\* reply's message, and every other reply fails with some error.
C16_DiscoveryByStatusAndUrl ==
    [][\A t \in TaskIds :
          (pc[t] = "wait" /\ op[t] = "set_network" /\ pc'[t] = "ret")
          => LET h == rsp'[t]
             IN  IF SuccessWithUrl(h)
                 THEN ret'[t].ok /\ nag_url' = at(h.json, "url").s
                 ELSE /\ ~ret'[t].ok
                      /\ IF Parsed(h) THEN last_error_' = DiscoveryRejected(h)
                                      ELSE last_error_' # nullopt]_vars

\* C16, amended: the same, where "parses as JSON" is read as "parses as a
\* JSON object whose status, url and message members, where present, are
\* strings"; a parsed reply that is not of that shape fails with some error,
\* whatever its status and url.
C16_DiscoveryByStatusUrlAndTypes ==
    [][\A t \in TaskIds :
          (pc[t] = "wait" /\ op[t] = "set_network" /\ pc'[t] = "ret")
          => LET h == rsp'[t]
             IN  IF SuccessWithUrl(h) /\ WellTyped(h)
                 THEN ret'[t].ok /\ nag_url' = at(h.json, "url").s
                 ELSE /\ ~ret'[t].ok
                      /\ IF Parsed(h) /\ WellTyped(h)
                         THEN last_error_' = DiscoveryRejected(h)
                         ELSE last_error_' # nullopt]_vars

\* discovery has answered "success" with an empty url and was rejected with
\* the reply's message
C16_Witness ==
    \E t \in TaskIds :
        /\ pc[t] = "ret" /\ op[t] = "set_network" /\ ~ret[t].ok
        /\ Parsed(rsp[t]) /\ WellTyped(rsp[t])
        /\ StringMember(rsp[t].json, "status")
        /\ at(rsp[t].json, "status").s = <<"success">>
        /\ StringMember(rsp[t].json, "url") /\ at(rsp[t].json, "url").s = <<>>
        /\ last_error_ = Some(<<"failed to get valid NAG URL from response: ", "no gateway">>)

(***************************************************************************)
(* Properties of close and open                                            *)
(***************************************************************************)

\* the eight fields close assigns hold what close assigns them
ClosedFields ==
    /\ address = <<>> /\ public_key = <<>> /\ nag_url = <<>> /\ network_node = <<>>
    /\ blockchain = <<>> /\ latest_tx_id = <<>> /\ nonce = 0 /\ interval_sec = 0

\* C17: after close, whatever the state before it, address, public_key,
\* nag_url, network_node, blockchain and latest_tx_id are empty and nonce and
\* interval_sec are 0; nag_url and blockchain are not DEFAULT_NAG and
\* DEFAULT_CHAIN again.
C17_CloseEmptiesTheAccount ==
    [][close => /\ ClosedFields'
                /\ nag_url' # DEFAULT_NAG /\ blockchain' # DEFAULT_CHAIN]_vars

\* an account closed after a submit_certificate the gateway rejected
C17_Witness ==
    /\ Quiet /\ ClosedFields
    /\ last_error_ = Some(<<"certificate submission failed: ", "boom">>)

\* C18 as stated: close keeps code_version and resets every other field,
\* network_url and last_error among them.
C18_CloseKeepsOnlyCodeVersion ==
    [][close => /\ ClosedFields'
                /\ network_url' = <<>> /\ last_error_' = nullopt
                /\ UNCHANGED code_version]_vars

\* C18, amended: close resets address, public_key, nag_url, network_node,
\* blockchain, latest_tx_id, nonce and interval_sec (and the account info),
\* and keeps code_version, network_url and last_error as they were.
C18_CloseKeepsVersionUrlAndError ==
    [][close => /\ ClosedFields' /\ info_' = nullopt
                /\ UNCHANGED <<code_version, network_url, last_error_>>]_vars

\* a closed account that still holds the error of a submit_certificate from
\* before the close, its code_version and its network_url
C18_Witness ==
    /\ Quiet /\ ClosedFields
    /\ last_error_ = Some(<<"certificate submission failed with non-200 result code">>)
    /\ network_url = DEFAULT_NETWORK_URL /\ code_version = LIB_VERSION

\* C19: open("") returns false, sets last_error to "invalid address format"
\* and leaves address and every other field as they were.
C19_OpenEmptyRefused ==
    [][open(<<>>)
       => /\ ~open_result(<<>>)
          /\ last_error_' = Some(<<"invalid address format">>)
          /\ UNCHANGED <<address, public_key, code_version, nag_url, network_node,
                         blockchain, latest_tx_id, nonce, interval_sec, network_url,
                         info_>>]_vars

\* open("") was refused on an account that is open and has an acknowledged
\* certificate
C19_Witness ==
    /\ Quiet /\ last_error_ = Some(<<"invalid address format">>)
    /\ address = AddrA /\ nonce > 0 /\ latest_tx_id # <<>>

\* C20: open(a) with a non-empty a returns true, stores a as given and changes
\* no other field; on an account whose address is a already it changes
\* nothing at all.
C20_OpenStoresAddressOnly ==
    /\ [][\A a \in OpenInputs \ {<<>>} :
            open(a)
            => /\ open_result(a)
               /\ address' = a
               /\ UNCHANGED <<public_key, code_version, nag_url, network_node,
                              blockchain, latest_tx_id, nonce, interval_sec,
                              network_url, info_, last_error_>>]_vars
    /\ [](\A a \in OpenInputs \ {<<>>} :
            address = a => ~ENABLED (open(a) /\ vars' # vars))

\* the account was opened anew under an address with prefix and upper-case
\* digits, after a certificate was acknowledged and an error recorded
C20_Witness ==
    /\ Quiet /\ address = AddrA /\ hex_fix(AddrA) # AddrA
    /\ nonce > 0 /\ latest_tx_id # <<>>
    /\ last_error_ = Some(<<"network identifier cannot be empty">>)

(***************************************************************************)
(* Properties of get_transaction_outcome                                   *)
(***************************************************************************)

\* the task runs get_transaction_outcome and waits for a poll's reply
Polling(t) == pc[t] = "wait" /\ op[t] = "get_transaction_outcome"

\* the reply has Result 200 and a Response whose Status is a string other
\* than "Pending"
NonPendingReply(h) ==
    /\ Parsed(h)
    /\ contains(h.json, "Result") /\ is_number_integer(at(h.json, "Result"))
    /\ at(h.json, "Result").n = 200
    /\ contains(h.json, "Response")
    /\ StringMember(at(h.json, "Response"), "Status")
    /\ at(at(h.json, "Response"), "Status").s # <<"Pending">>

NonPendingReplies == {h \in GatewayReplies : NonPendingReply(h)}

\* the reply has Result 200 and a Response with a Status, of whatever type,
\* that is not the string "Pending"
StatusNotPending(h) ==
    /\ Parsed(h)
    /\ contains(h.json, "Result") /\ is_number_integer(at(h.json, "Result"))
    /\ at(h.json, "Result").n = 200
    /\ contains(h.json, "Response")
    /\ contains(at(h.json, "Response"), "Status")
    /\ at(at(h.json, "Response"), "Status") # JStr(<<"Pending">>)

StatusNotPendingReplies == {h \in GatewayReplies : StatusNotPending(h)}

\* C21 as stated: when a poll's reply has Result 200 and a Response whose
\* Status is present and not equal to "Pending", get_transaction_outcome
\* returns that Response on that reply: no time passes and no further request
\* is issued.
C21_OutcomeReturnedAtOnce ==
    [][\A t \in TaskIds :
          Polling(t)
          => \A h \in StatusNotPendingReplies :
                (\E d \in 0..MaxDelay : get_transaction_outcome_reply(t, h, d))
                => /\ pc'[t] = "ret"
                   /\ ret'[t] = RetJson(at(h.json, "Response"))
                   /\ loc'[t].elapsed = loc[t].elapsed
                   /\ loc'[t].requests = loc[t].requests
                   /\ req'[t] = req[t]]_vars

\* C21, amended: the same for the replies whose Status is a string other than
\* "Pending"; a Status that is not a string is handled like "Pending".
C21_StringOutcomeReturnedAtOnce ==
    [][\A t \in TaskIds :
          Polling(t)
          => /\ \A h \in NonPendingReplies :
                  (\E d \in 0..MaxDelay : get_transaction_outcome_reply(t, h, d))
                  => /\ pc'[t] = "ret"
                     /\ ret'[t] = RetJson(at(h.json, "Response"))
                     /\ loc'[t].elapsed = loc[t].elapsed
                     /\ loc'[t].requests = loc[t].requests
                     /\ req'[t] = req[t]
             /\ \A h \in StatusNotPendingReplies \ NonPendingReplies :
                  (\E d \in 0..MaxDelay : get_transaction_outcome_reply(t, h, d))
                  => pc'[t] = "loop"]_vars

\* get_transaction_outcome has returned the Response of its second poll
C21_Witness ==
    \E t \in TaskIds :
        /\ pc[t] = "ret" /\ op[t] = "get_transaction_outcome" /\ ret[t].ok
        /\ ret[t].json = JObj([Status |-> JStr(<<"Executed">>)])
        /\ loc[t].requests = 2 /\ loc[t].elapsed > 0

\* the task runs get_transaction_outcome and is at the top of its loop
Looping(t) == pc[t] = "loop" /\ op[t] = "get_transaction_outcome"

TimeoutMessage == Some(<<"timeout exceeded while waiting for transaction outcome">>)

\* C22: get_transaction_outcome leaves its loop only by returning the
\* Response of a reply that is not pending, or by failing with the timeout
\* message at the top of the loop once the elapsed time exceeds timeout_sec;
\* any other reply is followed by a sleep of at least poll_interval_sec and
\* the top of the loop, where the next poll is issued; and no poll is issued
\* once the elapsed time exceeds timeout_sec.
C22_LoopExitsByOutcomeOrTimeout ==
    [][\A t \in TaskIds :
          /\ (Polling(t) /\ pc'[t] # "wait")
             => IF pc'[t] = "ret"
                THEN /\ rsp'[t] \in NonPendingReplies
                     /\ ret'[t] = RetJson(at(rsp'[t].json, "Response"))
                     /\ UNCHANGED last_error_
                ELSE /\ pc'[t] = "loop"
                     /\ loc'[t].elapsed >= loc[t].elapsed + loc[t].poll_interval_sec
                     /\ loc'[t].requests = loc[t].requests
          /\ (Looping(t) /\ TaskStep(t))
             => IF loc[t].elapsed > loc[t].timeout_sec
                THEN /\ pc'[t] = "ret" /\ ret'[t] = RetNullopt
                     /\ last_error_' = TimeoutMessage
                     /\ loc'[t].requests = loc[t].requests
                ELSE \/ /\ pc'[t] = "wait" /\ req'[t].sent
                        /\ loc'[t].requests = loc[t].requests + 1
                        /\ loc'[t].elapsed = loc[t].elapsed
                     \/ /\ pc'[t] = "loop" /\ ~has_value(get_transaction_by_id(loc[t].tx_id, 0, 10))
                        /\ loc'[t].elapsed >= loc[t].elapsed + loc[t].poll_interval_sec
                        /\ loc'[t].requests = loc[t].requests]_vars

\* get_transaction_outcome has timed out after two polls that did not end it
C22_Witness ==
    \E t \in TaskIds :
        /\ pc[t] = "ret" /\ op[t] = "get_transaction_outcome" /\ ~ret[t].ok
        /\ last_error_ = TimeoutMessage
        /\ loc[t].requests = 2 /\ loc[t].timeout_sec = 1
        /\ loc[t].elapsed > loc[t].timeout_sec

\* C23: a get_transaction_outcome call that is in its loop returns: with the
\* Response of a poll, or, when every poll is pending or fails, with nullopt
\* and the timeout message in last_error.
C23_PollingTerminates ==
    \A t \in TaskIds :
        (Looping(t) \/ Polling(t))
        ~> /\ pc[t] = "ret" /\ op[t] = "get_transaction_outcome"
           /\ (ret[t].ok \/ (ret[t] = RetNullopt /\ last_error_ = TimeoutMessage))

\* get_transaction_outcome has timed out after three polls, the interval being
\* smaller than the timeout
C23_Witness ==
    \E t \in TaskIds :
        /\ pc[t] = "ret" /\ op[t] = "get_transaction_outcome" /\ ret[t] = RetNullopt
        /\ last_error_ = TimeoutMessage
        /\ loc[t].poll_interval_sec < loc[t].timeout_sec
        /\ loc[t].requests = 3

\* C24: get_transaction_outcome called while nag_url is empty returns nullopt
\* at once with "network is not set" in last_error: it issues no request and
\* no time passes in it.
C24_PollingNeedsGateway ==
    [][\A t \in TaskIds :
          (/\ pc[t] = "idle" /\ pc'[t] # "idle"
           /\ op'[t] = "get_transaction_outcome" /\ nag_url = <<>>)
          => /\ pc'[t] = "ret" /\ ret'[t] = RetNullopt
             /\ last_error_' = Some(<<"network is not set">>)
             /\ req'[t] = NoReq
             /\ loc'[t].requests = 0 /\ loc'[t].elapsed = 0]_vars

\* get_transaction_outcome was refused on a closed account
C24_Witness ==
    \E t \in TaskIds :
        /\ pc[t] = "ret" /\ op[t] = "get_transaction_outcome" /\ ret[t] = RetNullopt
        /\ nag_url = <<>> /\ interval_sec = 0
        /\ last_error_ = Some(<<"network is not set">>)
        /\ ~req[t].sent /\ loc[t].requests = 0

(***************************************************************************)
(* Properties of get_transaction                                           *)
(***************************************************************************)

\* the whole of block_id is an integer: an optional sign and decimal digits
ParsesAsInteger(block_id) ==
    LET digits == IF block_id # <<>> /\ block_id[1] \in {43, 45} THEN Tail(block_id)
                  ELSE block_id
    IN  digits # <<>> /\ \A i \in 1..Len(digits) : IsDigit(digits[i])

\* the integer it is
IntegerOf(block_id) ==
    IF block_id[1] = 45 THEN 0 - DecimalValue(Tail(block_id))
    ELSE IF block_id[1] = 43 THEN DecimalValue(Tail(block_id))
    ELSE DecimalValue(block_id)

InvalidBlockIdErrors == {Some(<<"blockID cannot be empty">>), Some(<<"invalid blockID">>)}

\* C25: get_transaction called with a block_id that is not an integer (empty,
\* not numeric, or numeric followed by other characters) returns nullopt with
\* an invalid-block-id message in last_error and sends no request; called
\* with an integer on an account with a usable gateway URL it sends one
\* lookup whose Start and End are that integer.
C25_BlockIdMustBeInteger ==
    [][\A t \in TaskIds :
          (pc[t] = "idle" /\ pc'[t] # "idle" /\ op'[t] = "get_transaction")
          => \A b \in BlockIds :
                (\E x \in TxIds : get_transaction_begin(t, b, x))
                => IF ~ParsesAsInteger(b)
                   THEN /\ pc'[t] = "ret" /\ ret'[t] = RetNullopt
                        /\ last_error_' \in InvalidBlockIdErrors
                        /\ req'[t] = NoReq /\ loc'[t].requests = 0
                   ELSE parse_url(nag_url).ok
                        => /\ pc'[t] = "wait" /\ req'[t].sent
                           /\ loc'[t].requests = 1
                           /\ req'[t].body.Start = to_string(IntegerOf(b))
                           /\ req'[t].body.End = to_string(IntegerOf(b))]_vars

(***************************************************************************)
(* Properties of all operations                                            *)
(***************************************************************************)

\* C26: no call ends with an exception: whatever the reply, the private key
\* and the block id, the future of every call holds a value (a bool or an
\* optional), never an exception for get() to rethrow.
C26_NoExceptionEscapes ==
    \A t \in TaskIds : pc[t] = "ret" => ~ret[t].threw

\* update_account has returned false on a reply whose Nonce is a string, after
\* a submit_certificate whose key held characters that are no hex digits
C26_Witness ==
    \E t \in TaskIds :
        /\ pc[t] = "ret" /\ op[t] = "update_account" /\ ret[t] = RetBool(FALSE)
        /\ rsp[t] = HttpJson(JObj([Result |-> JInt(200),
                                   Response |-> JObj([Nonce |-> JStr(<<"1">>)])]))
        /\ last_error_ = Some(<<"failed to decode nonce response">>)

\* the operations that are not the polling loop
OneShotOps == {"set_network", "update_account", "submit_certificate", "get_transaction"}

\* C27: a set_network, update_account, submit_certificate or get_transaction
\* call either returns without a request or sends one request, and when the
\* exchange of that request ends, in a reply or in a failure, the call
\* returns: it sends nothing again.
C27_OneRequestPerCall ==
    [][\A t \in TaskIds :
          /\ (pc[t] = "idle" /\ pc'[t] # "idle" /\ op'[t] \in OneShotOps)
             => \/ pc'[t] = "ret" /\ loc'[t].requests = 0 /\ ~req'[t].sent
                \/ pc'[t] = "wait" /\ loc'[t].requests = 1 /\ req'[t].sent
          /\ (/\ pc[t] = "wait" /\ op[t] \in OneShotOps
              /\ <<pc[t], loc[t], req[t], rsp[t]>>' # <<pc[t], loc[t], req[t], rsp[t]>>)
             => /\ pc'[t] = "ret"
                /\ loc'[t].requests = 1 /\ req'[t] = req[t]]_vars

\* submit_certificate has returned false after its one request went unanswered
C27_Witness ==
    \E t \in TaskIds :
        /\ pc[t] = "ret" /\ op[t] = "submit_certificate" /\ ret[t] = RetBool(FALSE)
        /\ rsp[t] = NoResponse /\ req[t].sent /\ loc[t].requests = 1
        /\ last_error_ = Some(<<"network request failed">>)

\* C28: signing writes nothing to a file: no submit_certificate call has
\* appended its private key (with the message and the signature) to the file
\* "rust_sign_debug.log".
C28_SigningWritesNoFile ==
    \A t \in TaskIds : loc[t].debug_entry = <<>>

(***************************************************************************)
(* Properties of hex_fix                                                   *)
(***************************************************************************)

\* the string update_account has sent as Blockchain: hex_fix(blockchain)
SentBlockchain(t) == req[t].body.Blockchain

UpdateSent(t) == req[t].sent /\ op[t] = "update_account"

\* C29: hex_fix is idempotent: hex_fix(hex_fix(s)) = hex_fix(s), where s is
\* the blockchain of the account and hex_fix(s) what update_account has sent.
C29_HexFixIdempotent ==
    \A t \in TaskIds :
        UpdateSent(t) => hex_fix(SentBlockchain(t)) = SentBlockchain(t)

\* C30: hex_fix(s) is s without one leading "0x" or "0X", in lower case, with
\* one "0" in front when that leaves an odd length; it has even length, holds
\* no upper-case letter and does not start with "0x"; hex_fix("") is "".
C30_HexFixNormalForm ==
    \A t \in TaskIds :
        UpdateSent(t)
        => LET s == blockchain
               r == SentBlockchain(t)
               rest == IF Len(s) >= 2 /\ s[1] = Ord("0") /\ s[2] \in {Ord("x"), Ord("X")}
                       THEN SubSeq(s, 3, Len(s)) ELSE s
               body == SubSeq(r, Len(r) - Len(rest) + 1, Len(r))
           IN  /\ Len(r) = Len(rest) + (Len(rest) % 2)
               /\ \A i \in 1..Len(rest) : body[i] = tolower(rest[i])
               /\ Len(r) > Len(rest) => r[1] = Ord("0")
               /\ Len(r) % 2 = 0
               /\ \A i \in 1..Len(r) : ~IsUpper(r[i])
               /\ ~(Len(r) >= 2 /\ r[1] = Ord("0") /\ r[2] = Ord("x"))
               /\ s = <<>> => r = <<>>

(***************************************************************************)
(* SpecUtils: a caller of str_to_hex and hex_to_str, which either encodes  *)
(* a byte string and decodes the result, or decodes a string it was given  *)
(***************************************************************************)

\* the longest byte string that is encoded
MaxByteLen == 2

\* strings of the bytes NUL, "A", DEL, 0x80 and 0xFF
ByteInputs == UNION {[1..n -> {0, Ord("A"), 127, 128, 255}] : n \in 0..MaxByteLen}

\* strings of the characters of HexAlphabet and of two bytes that are no ASCII
\* characters
DecodeInputs == UNION {[1..n -> HexAlphabet \cup {128, 255}] : n \in 0..MaxHexLen}

InitUtils ==
    /\ CepAccount_new
    /\ CCertificate_new
    /\ decoded = NotDecoded
    /\ \/ original \in ByteInputs /\ hex_string = <<>>
       \/ original = <<>> /\ hex_string \in DecodeInputs

\* std::string hex = str_to_hex(original);
call_str_to_hex ==
    /\ hex_string' = str_to_hex(original)
    /\ decoded' = NotDecoded
    /\ UNCHANGED <<original, fields, taskvars, certificate>>

\* std::string decoded = hex_to_str(hex); with either result of the calls of
\* std::isxdigit that are undefined
call_hex_to_str ==
    /\ \E undefined \in BOOLEAN :
           decoded' = Decoded(hex_to_str(hex_string, undefined))
    /\ UNCHANGED <<original, hex_string, fields, taskvars, certificate>>

NextUtils ==
    \/ call_str_to_hex
    \/ call_hex_to_str

SpecUtils == InitUtils /\ [][NextUtils]_vars

\* s is made of the digits 0-9 and A-F only
UppercaseHex(s) == \A i \in 1..Len(s) : s[i] \in (48..57) \cup (65..70)

\* C31: encoding a byte string gives two uppercase hexadecimal digits per
\* byte (so an even length and no other character), and decoding what
\* str_to_hex gave for a byte string returns that byte string, without an
\* exception, for the empty string and for bytes of 0x80 and above as well.
C31_HexRoundTrip ==
    [][/\ call_str_to_hex =>
             /\ Len(hex_string') = 2 * Len(original)
             /\ Len(hex_string') % 2 = 0
             /\ UppercaseHex(hex_string')
       /\ (call_hex_to_str /\ hex_string = str_to_hex(original)) =>
             decoded' = [called |-> TRUE, threw |-> FALSE, str |-> original]]_vars

\* a string with a byte of 0x80 or above has been encoded and decoded
C31_Witness ==
    /\ decoded.called
    /\ \E i \in 1..Len(original) : original[i] >= 128
    /\ hex_string = str_to_hex(original)
    /\ decoded.str = original

\* the bytes that the pairs of hexadecimal digits of s stand for, in order
PairValues(s) ==
    [i \in 1..(Len(s) \div 2) |-> 16 * HexVal(s[2 * i - 1]) + HexVal(s[2 * i])]

\* C32: hex_to_str returns the empty string and throws nothing for a string
\* that, without one leading "0x" or "0X", has an odd length or holds a
\* character that is no hexadecimal digit; for any other string it returns
\* the bytes of its pairs of digits in order, upper- and lower-case alike.
C32_DecodesOrReturnsEmpty ==
    [][call_hex_to_str =>
          LET s == Strip0x(hex_string)
          IN  /\ ~decoded'.threw
              /\ decoded'.str = IF Len(s) % 2 # 0 \/ \E i \in 1..Len(s) : ~isxdigit(s[i])
                                THEN <<>>
                                ELSE PairValues(s)]_vars

(***************************************************************************)
(* SpecCert: a CCertificate (src/src/ccertificate.cpp) whose data and      *)
(* previous transaction and block are set in any order                     *)
(***************************************************************************)

\* CCertificate::set_data
set_data(data) ==
    /\ data_' = str_to_hex(data)
    /\ UNCHANGED <<previous_tx_id_, previous_block_, version_, fields, taskvars, utility>>

\* CCertificate::set_previous_tx_id
set_previous_tx_id(tx_id) ==
    /\ previous_tx_id_' = tx_id
    /\ UNCHANGED <<data_, previous_block_, version_, fields, taskvars, utility>>

\* CCertificate::set_previous_block
set_previous_block(block) ==
    /\ previous_block_' = block
    /\ UNCHANGED <<data_, previous_tx_id_, version_, fields, taskvars, utility>>

\* CCertificate::to_json
to_json ==
    JObj([key \in {"data", "previousTxID", "previousBlock", "version"} |->
             CASE key = "data" -> JStr(data_)
               [] key = "previousTxID" -> JStr(previous_tx_id_)
               [] key = "previousBlock" -> JStr(previous_block_)
               [] key = "version" -> JStr(version_)])

\* json::dump throws type_error 316 on a string that is not UTF-8; of the
\* bytes of the model, 0xFF occurs in no UTF-8 text and the others below 0x80
\* are UTF-8 on their own
dump_throws(j) == \E key \in DOMAIN j.o : \E i \in 1..Len(j.o[key].s) : j.o[key].s[i] = 255

\* CCertificate::get_json_certificate: the JSON text, as the value it parses
\* to, or the empty string when serialization failed
get_json_certificate == IF dump_throws(to_json) THEN JStr(<<>>) ELSE to_json

\* the ids a caller sets: none, a plain one, one that is not UTF-8
PreviousIds == {<<>>, Bytes(<<"t", "x", "1", "2", "3">>), <<255>>}

\* the data a caller sets
CertData == ByteInputs \cup {Bytes(<<"H", "e", "l", "l", "o">>)}

NextCert ==
    \/ \E data \in CertData : set_data(data)
    \/ \E tx_id \in PreviousIds : set_previous_tx_id(tx_id)
    \/ \E block \in PreviousIds : set_previous_block(block)

SpecCert == Init /\ [][NextCert]_vars

\* C34: after set_data(d) the certificate's JSON has the two members "data"
\* and "version" and no other, data is d itself and version is LIB_VERSION,
\* and setting the previous transaction or block changes none of this.
C34_JsonHasDataAndVersion ==
    [][/\ \A d \in CertData :
             set_data(d) =>
                 (get_json_certificate =
                     JObj([key \in {"data", "version"} |->
                              IF key = "data" THEN JStr(d) ELSE JStr(LIB_VERSION)]))'
       /\ (\E x \in PreviousIds : set_previous_tx_id(x) \/ set_previous_block(x)) =>
             get_json_certificate' = get_json_certificate]_vars

(***************************************************************************)
(* SpecOutage: the caller of SpecPoll while the gateway is out of reach:   *)
(* every exchange of a poll ends without a response, with a status other   *)
(* than 200, or with a body that is no JSON                                *)
(***************************************************************************)

\* the replies NetworkClient::post_json turns into a transport or decode error
PollFailures == {h \in GatewayReplies : ~has_value(post_json(h))}

\* the errors get_transaction_by_id returns for them
PollErrors == {Some(post_json(h).error) : h \in PollFailures}

NextOutage ==
    \/ Quiet /\ close
    \/ Quiet /\ set_network_begin(1, <<"testnet">>)
    \/ \E h \in IdDiscoveryReplies : set_network_end(1, h)
    \/ Quiet /\ get_transaction_outcome_call(1)
    \/ get_transaction_outcome_turn(1)
    \/ \E h \in PollFailures, d \in 0..MaxDelay : get_transaction_outcome_reply(1, h, d)
    \/ task_get(1)

SpecOutage == Init /\ [][NextOutage]_vars

\* C33: when a get_transaction_outcome call whose polls all failed with a
\* transport or decode error has returned without an outcome, last_error is
\* the error of one of those polls.
C33_PollingErrorReported ==
    \A t \in TaskIds :
        (/\ pc[t] = "ret" /\ op[t] = "get_transaction_outcome"
         /\ ret[t] = RetNullopt /\ loc[t].requests >= 1)
        => last_error_ \in PollErrors

(***************************************************************************)
(* Properties of the account as a whole                                    *)
(***************************************************************************)

\* in this step the submit_certificate call running as task t receives a
\* reply whose Result is the integer 200
AcknowledgedSubmit(t) ==
    /\ pc[t] = "wait" /\ op[t] = "submit_certificate"
    /\ pc'[t] = "ret" /\ Acknowledged(rsp'[t])

\* C35: latest_tx_id starts empty and is written by two steps only: close
\* empties it, and a submit_certificate that the gateway acknowledges with
\* Result 200 sets it to the ID of that call. Every other step (a failed
\* submit_certificate, update_account, set_network, get_transaction,
\* get_transaction_outcome, open) leaves it as it is, so that it is always
\* empty or the ID of the most recent acknowledged submit_certificate.
C35_LatestTxIdIsLastAcknowledged ==
    [][/\ \A t \in TaskIds :
             AcknowledgedSubmit(t) =>
                 /\ ret'[t] = RetBool(TRUE)
                 /\ latest_tx_id' = loc[t].id /\ latest_tx_id' = req[t].body.ID
       /\ latest_tx_id' # latest_tx_id =>
             \/ close /\ latest_tx_id' = <<>>
             \/ \E t \in TaskIds : AcknowledgedSubmit(t)]_vars

\* after an acknowledged submit_certificate, a submit_certificate that the
\* gateway refused has returned and latest_tx_id is still the ID of the
\* acknowledged one, not that of the refused one
C35_Witness ==
    \E t \in TaskIds :
        /\ pc[t] = "ret" /\ op[t] = "submit_certificate" /\ ~ret[t].ok
        /\ rsp[t].arrived /\ ~Acknowledged(rsp[t])
        /\ latest_tx_id # <<>> /\ latest_tx_id # loc[t].id

\* close has been called and, since then, open has stored no address or
\* set_network has bound no gateway: close is the only operation that empties
\* blockchain, and nothing the caller does fills it again
ClosedAndNotRestored == blockchain = <<>> /\ (address = <<>> \/ nag_url = <<>>)

\* in this step a call of one of the operations that consult the gateway
\* starts as task t
Called(t) == pc[t] = "idle" /\ pc'[t] # "idle" /\ op'[t] \in ConsultingOps

\* the call that starts as task t fails at once, without a request and without
\* a change of nonce or latest_tx_id
RefusedUnsent(t) ==
    /\ pc'[t] = "ret" /\ ~ret'[t].ok /\ ~ret'[t].threw
    /\ req'[t] = NoReq /\ loc'[t].requests = 0
    /\ last_error_' # nullopt
    /\ UNCHANGED <<nonce, latest_tx_id>>

\* C36 (as stated): after close, until open has stored an address and
\* set_network has bound a gateway again, every update_account,
\* submit_certificate, get_transaction and get_transaction_outcome call fails
\* without a request and without a change of nonce or latest_tx_id.
C36_UnusableUntilOpenedAndBound ==
    [][\A t \in TaskIds :
          (Called(t) /\ ClosedAndNotRestored) => RefusedUnsent(t)]_vars

\* C36 (amended): blockchain is emptied by close only; after close,
\* update_account and submit_certificate fail in that way until open has
\* stored an address and set_network has bound a gateway, and get_transaction
\* and get_transaction_outcome fail in that way until set_network has bound
\* a gateway, whether or not the account has been opened again.
C36_WritesNeedBothLookupsNeedGateway ==
    [][/\ (blockchain # <<>> /\ blockchain' = <<>>) => close
       /\ \A t \in TaskIds :
             (/\ Called(t) /\ ClosedAndNotRestored
              /\ (op'[t] \in {"get_transaction", "get_transaction_outcome"}
                     => nag_url = <<>>))
             => RefusedUnsent(t)]_vars

\* after close and open, without set_network: a get_transaction call has
\* returned without a request
C36_Witness ==
    \E t \in TaskIds :
        /\ pc[t] = "ret" /\ op[t] = "get_transaction" /\ ~ret[t].ok
        /\ blockchain = <<>> /\ address # <<>> /\ nag_url = <<>>
        /\ ~req[t].sent
        /\ last_error_ = Some(<<"failed to get transaction by ID: ", "network is not set">>)

(***************************************************************************)
(* SpecSign: a caller that opens the account and submits certificates      *)
(* signed with well-formed and with malformed private keys                 *)
(***************************************************************************)

\* 64 characters, the last of which is no hexadecimal digit
KeyStrayLetter == Bytes([i \in 1..64 |-> IF i = 64 THEN "z" ELSE "1"])
\* 64 characters, the last pair of which is a signed digit
KeySignedPair == Bytes([i \in 1..64 |-> IF i = 63 THEN "+" ELSE "1"])

SignKeys == KeyInputs \cup {KeyOne, KeyStrayLetter, KeySignedPair}

sign_and_submit(t, private_key_hex) ==
    \E d \in DataInputs, tm \in ClockReadings, w \in BOOLEAN :
        submit_certificate_begin(t, d, private_key_hex, tm, w)

NextSign ==
    \/ Quiet /\ \E a \in OpenInputs : open(a)
    \/ Quiet /\ nonce < MaxNonce /\ \E k \in SignKeys : sign_and_submit(1, k)
    \/ \E h \in IdGatewayReplies : submit_certificate_end(1, h)
    \/ task_get(1)

SpecSign == Init /\ [][NextSign]_vars

\* the key string, in the normal form of hex_fix, is 64 hexadecimal digits
\* that stand for a scalar of the group
WellFormedKey(private_key_hex) ==
    LET clean_hex == hex_fix(private_key_hex)
    IN  /\ \A i \in 1..Len(clean_hex) : isxdigit(clean_hex[i])
        /\ Len(clean_hex) = 64
        /\ (\E i \in 1..32 : PairValues(clean_hex)[i] # 0)
        /\ LexLess(PairValues(clean_hex), CurveOrder)

\* C37: sign_data returns Ok, so that submit_certificate goes on to send its
\* request, only if the account is open and the key, in the normal form of
\* hex_fix, is made of hexadecimal digits only and stands for 32 bytes that
\* are a scalar of the group; for any other key the call fails with a signing
\* error.
C37_MalformedKeyRefused ==
    [][\A k \in SignKeys :
          (pc[1] = "idle" /\ sign_and_submit(1, k))
          => IF address # <<>> /\ WellFormedKey(k)
             THEN has_value(sign_data(address, <<>>, k))
             ELSE /\ pc'[1] = "ret" /\ ret'[1] = RetBool(FALSE)
                  /\ ~has_value(sign_data(address, <<>>, k))]_vars

\* the Nonce member of the request task t has sent, as a number
SentNonce(t) == stoll(req[t].body.Nonce).value

\* C38: under a caller that has one call in flight at a time, a
\* submit_certificate call sends the value nonce has when the call starts and
\* leaves nonce as it is until the reply; a successful call leaves nonce at
\* the value it sent plus one and a failed one leaves nonce at the value it
\* sent; and between two calls nonce changes only by update_account or
\* close. So k successful calls in a row from nonce n, with failed ones in
\* between, send n, n+1, ..., n+k-1 in that order and leave n+k, and a failed
\* call's Nonce is sent again by the next call.
C38_ConsecutiveSubmitsCountUp ==
    [][/\ \A t \in TaskIds :
             /\ (pc[t] = "idle" /\ pc'[t] = "wait" /\ op'[t] = "submit_certificate")
                => /\ req'[t].body.Nonce = to_string(nonce)
                   /\ nonce' = nonce
             /\ (pc[t] = "wait" /\ op[t] = "submit_certificate")
                => /\ SentNonce(t) = nonce
                   /\ pc'[t] = "ret"
                   /\ nonce' = IF ret'[t].ok THEN SentNonce(t) + 1 ELSE SentNonce(t)
       /\ nonce' # nonce =>
             \/ close
             \/ \E t \in TaskIds :
                   /\ pc[t] = "wait" /\ pc'[t] = "ret"
                   /\ op[t] \in {"submit_certificate", "update_account"}
                   /\ ret'[t].ok]_vars

\* an acknowledged submit_certificate call that sent Nonce 1 has returned and
\* nonce is 2; under SpecId, whose caller calls neither update_account nor
\* close, it is the second acknowledged call from nonce 0
C38_Witness ==
    \E t \in TaskIds :
        /\ pc[t] = "ret" /\ op[t] = "submit_certificate" /\ ret[t] = RetBool(TRUE)
        /\ SentNonce(t) = 1 /\ nonce = 2
        /\ latest_tx_id = loc[t].id

(***************************************************************************)
(* Properties of the lookups                                               *)
(***************************************************************************)

LookupOps == {"get_transaction", "get_transaction_outcome"}

\* C39: no step of a get_transaction or get_transaction_outcome call, whatever
\* the gateway replies and whether the call succeeds, fails or times out,
\* changes address, nonce, latest_tx_id, nag_url, network_node or blockchain,
\* or any other field of the account than last_error.
C39_LookupsWriteLastErrorOnly ==
    [][\A t \in TaskIds :
          (op'[t] \in LookupOps /\ TaskStep(t))
          => /\ UNCHANGED <<address, nonce, latest_tx_id, nag_url, network_node, blockchain>>
             /\ UNCHANGED <<public_key, code_version, interval_sec, network_url, info_>>]_vars

\* on an account with an acknowledged certificate, a get_transaction_outcome
\* call has timed out and written last_error
C39_Witness ==
    \E t \in TaskIds :
        /\ pc[t] = "ret" /\ op[t] = "get_transaction_outcome" /\ ret[t] = RetNullopt
        /\ loc[t].requests >= 1
        /\ last_error_ = TimeoutMessage
        /\ nonce > 0 /\ latest_tx_id # <<>> /\ address # <<>>
====
